---- MODULE Spec2Model ----
(***************************************************************************)
(* Wizard drivers of the installer automation scripts:                     *)
(*   Scripts/tehtris_edr_installer_minimal.py  (EDR install driver)        *)
(*   Scripts/tehtris_edr_uninstaller.py        (EDR uninstall driver)      *)
(*   Scripts/nmap_installer_automation.py      (Nmap + Npcap handler)      *)
(* A wizard screen is what one window enumeration returns: the cleaned     *)
(* texts of its Button controls, which of them carry the radio style bit,  *)
(* and the number of edit controls.  Every enumeration of the scripts is   *)
(* one step of the model; the wizard may change between two enumerations.  *)
(***************************************************************************)
EXTENDS Integers, Sequences, FiniteSets, TLC

VARIABLES
    \* ---- EDR install driver (_run_optimized_installation_steps) ----
    i_screen,             \* screen the TEHTRIS EDR Setup wizard shows now
    requires_license_key, \* self.requires_license_key
    pc,                   \* position of the install driver
    current_cycle,        \* local current_cycle
    current_step_index,   \* local current_step_index
    result,               \* "running", or the driver's return value
    detected,             \* result of the latest detect_current_step call
    w_polls,              \* iterations of handle_welcome_screen's timed loop
    obs,                  \* history: the loop's observations while they follow WLW
    hiRank,               \* history: highest canonical page shown so far
    reverted,             \* history: the wizard went back to an earlier page
    disturbed,            \* history: the wizard changed by itself after obs = WLW
    acts,                 \* history: controls tried by the handler call in progress
    \* ---- Nmap/Npcap handler (handle_concurrent_installers) ----
    nmap_win,             \* the Nmap setup window, if any
    npcap_win,            \* the Npcap window, if any
    nmap_complete,        \* local nmap_complete
    npcap_complete,       \* local npcap_complete
    n_ticks,              \* passes of the timed loop made so far
    n_state,              \* "running" or "returned"
    tick,                 \* history: what the latest pass enumerated and did
    \* ---- step classifiers applied to one signature ----
    c_sig,                \* the signature: buttons, radios, edits, version
    c_step,               \* steps returned: installer's and uninstaller's
    c_count,              \* classifications of the signature made so far
    \* ---- EDR uninstall driver (run_uninstallation, V2 wizard) ----
    u_wizard,             \* the pages of the uninstall wizard, in order
    u_page,               \* index of the page shown now
    u_dialog,             \* an error dialog is visible
    u_cred,               \* "password" or "keyfile": the credential given
    u_pyautogui,          \* PYAUTOGUI_AVAILABLE
    u_pc,                 \* position of the uninstall driver
    u_result,             \* "running", or run_uninstallation's return value
    u_polls,              \* iterations of the current timed loop
    u_trace,              \* history: steps of the pages shown, in order
    u_hist,               \* history: dialog appeared / was detected, clicks
    \* ---- run_installation / run_uninstallation of the three scripts ----
    r_script,             \* "nmap", "edr_install" or "edr_uninstall"
    r_env,                \* what the script finds: files, privilege, credentials
    r_pc,                 \* the call the run is about to make
    r_result,             \* "running", or the run's return value
    r_log,                \* history: the calls made, in order
    r_events,             \* history: what happened in the calls
    \* ---- _add_silent_flags_v1 applied to a V1 uninstall command ----
    uninstall_string,     \* the command passed in
    silent_command,       \* the command returned, NoCommand before the call
    flag_calls            \* calls of _add_silent_flags_v1 made so far

instVars == <<i_screen, requires_license_key, pc, current_cycle,
              current_step_index, result, detected, w_polls, obs, hiRank,
              reverted, disturbed, acts>>

nmapVars == <<nmap_win, npcap_win, nmap_complete, npcap_complete, n_ticks,
              n_state, tick>>

clsVars == <<c_sig, c_step, c_count>>

unVars == <<u_wizard, u_page, u_dialog, u_cred, u_pyautogui, u_pc, u_result,
            u_polls, u_trace, u_hist>>

runVars == <<r_script, r_env, r_pc, r_result, r_log, r_events>>

cmdVars == <<uninstall_string, silent_command, flag_calls>>

vars == <<instVars, nmapVars, clsVars, unVars, runVars, cmdVars>>

(***************************************************************************)
(* EDR uninstaller: _add_silent_flags_v1                                   *)
(* A command is the program it names (msiexec or an EXE uninstaller) and   *)
(* the flags that follow it, in order, each as it is written.              *)
(***************************************************************************)
\* str.lower() on the flags
LowerOf ==
       "/x" :> "/x"
    @@ "/quiet" :> "/quiet"
    @@ "/QUIET" :> "/quiet"
    @@ "/norestart" :> "/norestart"
    @@ "/NORESTART" :> "/norestart"
    @@ "/q" :> "/q"
    @@ "/S" :> "/s"
    @@ "/s" :> "/s"
    @@ "/SILENT" :> "/silent"
    @@ "/silent" :> "/silent"
    @@ "/VERYSILENT" :> "/verysilent"
    @@ "/verysilent" :> "/verysilent"
    @@ "/SUPPRESSMSGBOXES" :> "/suppressmsgboxes"
    @@ "/suppressmsgboxes" :> "/suppressmsgboxes"

\* Python's `a in b` on the flags: FlagsWithin[b] is the set of the flags a
\* the function looks for with `a in b`.
FlagsWithin ==
       "/x" :> {}
    @@ "/quiet" :> {"/quiet", "/q"}
    @@ "/QUIET" :> {}
    @@ "/norestart" :> {"/norestart"}
    @@ "/NORESTART" :> {"/NORESTART"}
    @@ "/q" :> {"/q"}
    @@ "/S" :> {}
    @@ "/s" :> {"/s"}
    @@ "/SILENT" :> {}
    @@ "/silent" :> {"/s", "/silent"}
    @@ "/VERYSILENT" :> {}
    @@ "/verysilent" :> {"/verysilent"}
    @@ "/SUPPRESSMSGBOXES" :> {"/SUPPRESSMSGBOXES"}
    @@ "/suppressmsgboxes" :> {"/s", "/suppressmsgboxes"}

\* `flag in command`
InCommand(flag, flags) ==
    \E i \in DOMAIN flags : flag \in FlagsWithin[flags[i]]

\* `flag in command.lower()`
InLowerCommand(flag, flags) ==
    \E i \in DOMAIN flags : flag \in FlagsWithin[LowerOf[flags[i]]]

\* line 123
silent_flags == <<"/S", "/SILENT", "/VERYSILENT", "/q", "/quiet">>

\* lines 132-135: a flag appended unless the command built so far holds it
AppendUnlessPresent(flags, flag) ==
    IF InCommand(flag, flags) THEN flags ELSE Append(flags, flag)

\* lines 113-141
Un_add_silent_flags_v1(cmd) ==
    IF cmd.msiexec
    THEN IF ~InLowerCommand("/quiet", cmd.flags)
         THEN [cmd EXCEPT !.flags = @ \o <<"/quiet", "/norestart">>]
         ELSE cmd
    ELSE LET Missing(flag) == ~InLowerCommand(LowerOf[flag], cmd.flags)
             with_silent == cmd.flags \o SelectSeq(silent_flags, Missing)
         IN  [cmd EXCEPT !.flags =
                 AppendUnlessPresent(
                     AppendUnlessPresent(with_silent, "/SUPPRESSMSGBOXES"),
                     "/NORESTART")]

MaxFlags == 2
CmdFlags == {"/x", "/quiet", "/QUIET", "/norestart", "/NORESTART", "/S", "/q"}
NoCommand == [msiexec |-> FALSE, flags |-> <<"none">>]

\* the UninstallString read from the registry (line 642)
CmdInit ==
    /\ uninstall_string \in
         [msiexec : BOOLEAN,
          flags : UNION {[1..n -> CmdFlags] : n \in 0..MaxFlags}]
    /\ silent_command = NoCommand
    /\ flag_calls = 0

CmdIdle ==
    /\ uninstall_string = [msiexec |-> FALSE, flags |-> <<>>]
    /\ silent_command = NoCommand
    /\ flag_calls = 0

CmdStep == UNCHANGED <<instVars, nmapVars, clsVars, unVars, runVars>>

\* line 658: silent_command = self._add_silent_flags_v1(uninstall_command)
AddSilentFlags ==
    /\ CmdStep
    /\ flag_calls = 0
    /\ silent_command' = Un_add_silent_flags_v1(uninstall_string)
    /\ flag_calls' = 1
    /\ UNCHANGED uninstall_string

MaxFlagCalls == 2

\* the function applied to the command it returned
AddSilentFlagsAgain ==
    /\ CmdStep
    /\ flag_calls >= 1 /\ flag_calls < MaxFlagCalls
    /\ uninstall_string' = silent_command
    /\ silent_command' = Un_add_silent_flags_v1(silent_command)
    /\ flag_calls' = flag_calls + 1

CmdNext == AddSilentFlags \/ AddSilentFlagsAgain

(***************************************************************************)
(* Texts.  Button texts are the cleaned texts the scans produce            *)
(* (ampersand removed, lower case, stripped).                              *)
(***************************************************************************)
ACCEPT == "i accept the terms in the license agreement"
DECLINE == "i do not accept the terms in the license agreement"

\* Python's `a in b` on the texts the scripts compare: SubstringsOf[b] is the
\* set of texts a of the universe with `a in b`.
SubstringsOf ==
       "next >" :> {"next >", "next"}
    @@ "next" :> {"next"}
    @@ "continue" :> {"continue"}
    @@ "< back" :> {"< back", "back"}
    @@ "back" :> {"back"}
    @@ "cancel" :> {"cancel"}
    @@ "install" :> {"install"}
    @@ "installing" :> {"install", "installing"}
    @@ "uninstall" :> {"install", "uninstall"}
    @@ "finish" :> {"finish"}
    @@ "close" :> {"close"}
    @@ "done" :> {"done"}
    @@ "exit" :> {"exit"}
    @@ ACCEPT :> {ACCEPT, "agree", "accept", "i accept", "i accept the terms", "terms"}
    @@ DECLINE :> {DECLINE, "agree", "accept", "terms"}
    @@ "remove" :> {"remove"}
    @@ "delete" :> {"delete"}
    @@ "yes" :> {"yes"}
    @@ "ok" :> {"ok"}
    @@ "confirm" :> {"confirm"}
    @@ "enter password" :> {"enter password"}
    @@ "use key file" :> {"use key file"}
    @@ "i agree" :> {"i agree", "agree"}
    @@ "agree" :> {"agree"}
    @@ "accept" :> {"accept"}
    @@ "i accept" :> {"accept", "i accept"}
    @@ "i accept the terms" :> {"accept", "i accept", "i accept the terms", "terms"}
    @@ "terms" :> {"terms"}

InStr(a, b) == a \in SubstringsOf[b]

\* any(btn in buttons for btn in names)
AnyIn(names, buttons) == names \cap buttons # {}

Max(a, b) == IF a >= b THEN a ELSE b

(***************************************************************************)
(* EDR installer: step classifier                                          *)
(***************************************************************************)
Inst_has_edit_fields_Any(edits) == edits >= 0

Inst_has_edit_fields_One(edits) == edits >= 1

Inst_has_edit_fields(edits) == edits >= 2

Inst_detect_current_step_Stateful(buttons, edits) ==
    IF c_count = 0 /\ AnyIn({"install", "installing"}, buttons) THEN "installation"
    ELSE IF AnyIn({"finish", "close", "done"}, buttons) THEN "complete"
    ELSE "unknown"

Inst_detect_current_step(buttons, edits) ==
    IF AnyIn({"install", "installing"}, buttons) THEN "installation"
    ELSE IF AnyIn({"finish", "close", "done"}, buttons) THEN "complete"
    ELSE IF AnyIn({ACCEPT, DECLINE}, buttons) THEN "license"
    ELSE IF /\ AnyIn({"next", "next >", "continue"}, buttons)
            /\ AnyIn({"< back", "back"}, buttons)
            /\ AnyIn({"cancel"}, buttons)
         THEN IF Inst_has_edit_fields(edits) THEN "activation" ELSE "welcome"
    ELSE "unknown"

Inst_detect(s) == Inst_detect_current_step(s.buttons, s.edits)

(***************************************************************************)
(* EDR installer: control actuators, as "was a control found and clicked"  *)
(***************************************************************************)
next_variations == {"next", "next >", "continue"}
accept_variations == {"accept", "i accept", "agree", "i agree", "yes", "ok"}
accept_radio_variations == {ACCEPT, "i accept the terms", "i accept", "accept"}

Inst_click_with_win32gui(s, button_variations) ==
    \E b \in s.buttons : \E v \in button_variations : InStr(v, b) \/ InStr(b, v)

Inst_radio_matches(clean_radio, clean_text) ==
    \/ InStr(clean_radio, clean_text)
    \/ InStr(clean_text, clean_radio)
    \/ /\ InStr("accept", clean_radio)
       /\ InStr("accept", clean_text)
       /\ InStr("terms", clean_text)
    \/ InStr("i accept", clean_radio) /\ InStr("i accept", clean_text)

Inst_click_radio_button(s, radio_text) ==
    \E b \in s.radios : Inst_radio_matches(radio_text, b)

\* lines 220-248: the radio buttons click_radio_button(radio_text) can click;
\* it clicks the one of them that EnumChildWindows reports first.
Inst_radio_targets(s, radio_text) ==
    {b \in s.radios : Inst_radio_matches(radio_text, b)}

\* lines 691-698: accept_radio_variations in the order they are tried
accept_radio_order == <<ACCEPT, "i accept the terms", "i accept", "accept">>

\* lines 700-705: the radio buttons the handler's loop can click: the targets
\* of the first variation that has any.
Inst_license_radio_targets(s) ==
    LET hits == {i \in DOMAIN accept_radio_order :
                    Inst_radio_targets(s, accept_radio_order[i]) # {}}
    IN  IF hits = {} THEN {}
        ELSE Inst_radio_targets(s,
                 accept_radio_order[CHOOSE i \in hits : \A j \in hits : i <= j])

Inst_fill_field_with_win32gui(s, field_index) == field_index < s.edits

Inst_check_for_next_button_fast(s) == AnyIn({"next", "next >", "continue"}, s.buttons)

(***************************************************************************)
(* The TEHTRIS EDR Setup wizard (environment)                              *)
(***************************************************************************)
NavTriple == {"next >", "< back", "cancel"}

ScrNone       == [buttons |-> {}, radios |-> {}, edits |-> 0]
ScrWelcome    == [buttons |-> NavTriple, radios |-> {}, edits |-> 0]
ScrLicense    == [buttons |-> NavTriple \cup {ACCEPT, DECLINE},
                  radios |-> {ACCEPT, DECLINE}, edits |-> 0]
ScrActivation2 == [buttons |-> NavTriple, radios |-> {}, edits |-> 2]
ScrActivation3 == [buttons |-> NavTriple, radios |-> {}, edits |-> 3]
ScrInstall    == [buttons |-> {"install", "< back", "cancel"}, radios |-> {}, edits |-> 0]
ScrProgress   == [buttons |-> {"cancel"}, radios |-> {}, edits |-> 0]
ScrFinish     == [buttons |-> {"finish"}, radios |-> {}, edits |-> 0]

InstScreens == {ScrNone, ScrWelcome, ScrLicense, ScrActivation2, ScrActivation3,
                ScrInstall, ScrProgress, ScrFinish}

\* The page the wizard shows after its Next button was clicked.
WizardAfterNext(s, needsKey) ==
    IF s = ScrWelcome THEN ScrLicense
    ELSE IF s = ScrLicense THEN (IF needsKey THEN ScrActivation3 ELSE ScrActivation2)
    ELSE IF s \in {ScrActivation2, ScrActivation3} THEN ScrInstall
    ELSE s

\* The page the wizard shows after its Install button was clicked.
WizardAfterInstall(s) == IF s = ScrInstall THEN ScrProgress ELSE s

(***************************************************************************)
(* EDR install driver                                                      *)
(***************************************************************************)
max_cycles == 30
expected_sequence == <<"welcome", "license", "activation", "installation">>

\* expected_sequence.index(step), 0-based as in the script
SeqIndex(step) == (CHOOSE i \in 1..Len(expected_sequence) : expected_sequence[i] = step) - 1
InSequence(step) == \E i \in 1..Len(expected_sequence) : expected_sequence[i] = step
ExpectedStep(idx) == expected_sequence[idx + 1]

\* The branches of the loop taken when the detected step is neither 'complete'
\* nor the expected step: the new value of current_step_index.
AdvanceIndex_NoReset(step, idx) ==
    IF step = "welcome" /\ ExpectedStep(idx) # "welcome" THEN idx
    ELSE IF InSequence(step) /\ SeqIndex(step) > idx THEN SeqIndex(step)
    ELSE idx

AdvanceIndex_UnknownResets(step, idx) ==
    IF step = "welcome" /\ ExpectedStep(idx) # "welcome" THEN 0
    ELSE IF InSequence(step) /\ SeqIndex(step) > idx THEN SeqIndex(step)
    ELSE IF step = "unknown" THEN 0
    ELSE idx

AdvanceIndex_StepBack(step, idx) ==
    IF step = "welcome" /\ ExpectedStep(idx) # "welcome" THEN idx - 1
    ELSE IF InSequence(step) /\ SeqIndex(step) > idx THEN SeqIndex(step)
    ELSE idx

AdvanceIndex_UnknownSkips(step, idx) ==
    IF step = "welcome" /\ ExpectedStep(idx) # "welcome" THEN 0
    ELSE IF InSequence(step) /\ SeqIndex(step) > idx THEN SeqIndex(step)
    ELSE IF step = "unknown" THEN idx + 1
    ELSE idx

AdvanceIndex_NoSkip(step, idx) ==
    IF step = "welcome" /\ ExpectedStep(idx) # "welcome" THEN 0
    ELSE idx

AdvanceIndex(step, idx) ==
    IF step = "welcome" /\ ExpectedStep(idx) # "welcome" THEN 0
    ELSE IF InSequence(step) /\ SeqIndex(step) > idx THEN SeqIndex(step)
    ELSE idx

\* History of the loop's observations (line 1053), kept while it follows
\* welcome, license, welcome.
WLW == <<"welcome", "license", "welcome">>
Diverged == <<"other">>
RecordObs(o, step) ==
    IF o = WLW \/ o = Diverged THEN o
    ELSE IF step = WLW[Len(o) + 1] THEN Append(o, step)
    ELSE Diverged

\* Canonical page number of a screen; -1 for a screen no step is detected on.
Rank(s) ==
    LET st == Inst_detect(s) IN
    IF st = "complete" THEN Len(expected_sequence)
    ELSE IF InSequence(st) THEN SeqIndex(st)
    ELSE -1

\* The wizard shows screen s.
Shows(s) ==
    /\ i_screen' = s
    /\ reverted' = (reverted \/ (Rank(s) >= 0 /\ Rank(s) < hiRank))
    /\ hiRank' = IF reverted' THEN 0 ELSE Max(hiRank, Rank(s))

\* A step of the install driver or of its wizard: the run has not returned,
\* and nothing of the other scripts changes.
InstStep == result = "running" /\ UNCHANGED <<nmapVars, clsVars, unVars, runVars, cmdVars>>

MaxWelcomePolls == 2

\* A handler tried control ctl (a click_with_win32gui, click_radio_button or
\* fill_field_with_win32gui call); ok: the control was found and activated.
Activate(ctl, ok) == acts' = Append(acts, [ctl |-> ctl, ok |-> ok])

InstInit ==
    /\ i_screen \in {ScrNone, ScrWelcome}
    /\ requires_license_key \in BOOLEAN
    /\ pc = "loop"
    /\ current_cycle = 0
    /\ current_step_index = 0
    /\ result = "running"
    /\ detected = "none"
    /\ w_polls = 0
    /\ obs = <<>>
    /\ hiRank = 0
    /\ reverted = FALSE
    /\ disturbed = FALSE
    /\ acts = <<>>

\* A handler returned True: lines 1082-1083.
HandlerSucceeded ==
    /\ current_step_index' = current_step_index + 1
    /\ pc' = "loop"
    /\ result' = result
    /\ acts' = <<>>

\* A handler returned False and the driver returns False.
DriverFails ==
    /\ result' = "failure"
    /\ pc' = "done"
    /\ current_step_index' = current_step_index
    /\ acts' = <<>>

HandlerEntry_AlwaysWelcome(step) == "wel_detect"

HandlerEntry(step) ==
    IF step = "welcome" THEN "wel_detect"
    ELSE IF step = "license" THEN "lic_detect"
    ELSE IF step = "activation" THEN "act_server"
    ELSE "inst_click"

\* The positions of the driver inside the branch of lines 1064-1080 that
\* calls the handler of step.
HandlerPcs(step) ==
    IF step = "welcome" THEN {"wel_detect", "wel_click", "wel_verify"}
    ELSE IF step = "license"
    THEN {"lic_detect", "lic_redetect", "lic_radio", "lic_accept", "lic_next",
          "lic_verify", "lic_fast", "lic_fast_detect", "lic_failed"}
    ELSE IF step = "activation" THEN {"act_server", "act_tag", "act_license", "act_next"}
    ELSE IF step = "installation" THEN {"inst_click", "inst_return"}
    ELSE {}

\* line 1058
IsTerminal_Never(step) == FALSE

IsTerminal(step) == step = "complete"

\* the value returned after the loop: lines 1104-1108
LoopExitResult_AlwaysTrue(cycle) == "success"

LoopExitResult(cycle) == IF cycle >= max_cycles THEN "failure" ELSE "success"

\* while condition false: lines 1104-1108
LoopExit ==
    /\ InstStep /\ pc = "loop"
    /\ UNCHANGED acts
    /\ ~(current_cycle < max_cycles /\ current_step_index < Len(expected_sequence))
    /\ result' = LoopExitResult(current_cycle)
    /\ pc' = "done"
    /\ UNCHANGED <<i_screen, requires_license_key, current_cycle, current_step_index,
                   detected, w_polls, obs, hiRank, reverted, disturbed>>

\* one pass of the loop head: lines 1051-1060
LoopComplete ==
    /\ InstStep /\ pc = "loop"
    /\ acts' = <<>>
    /\ current_cycle < max_cycles /\ current_step_index < Len(expected_sequence)
    /\ IsTerminal(Inst_detect(i_screen))
    /\ current_cycle' = current_cycle + 1
    /\ detected' = Inst_detect(i_screen)
    /\ obs' = RecordObs(obs, Inst_detect(i_screen))
    /\ result' = "success"
    /\ pc' = "done"
    /\ UNCHANGED <<i_screen, requires_license_key, current_step_index, w_polls,
                   hiRank, reverted, disturbed>>

\* detected step = expected step: dispatch to its handler, lines 1063-1080
LoopDispatch ==
    /\ InstStep /\ pc = "loop"
    /\ acts' = <<>>
    /\ current_cycle < max_cycles /\ current_step_index < Len(expected_sequence)
    /\ LET step == Inst_detect(i_screen) IN
        /\ ~IsTerminal(step)
        /\ step = ExpectedStep(current_step_index)
        /\ current_cycle' = current_cycle + 1
        /\ detected' = step
        /\ obs' = RecordObs(obs, step)
        /\ pc' = HandlerEntry(step)
        /\ w_polls' = 0
    /\ UNCHANGED <<i_screen, requires_license_key, current_step_index, result,
                   hiRank, reverted, disturbed>>

\* detected step differs from the expected step: lines 1085-1102
LoopMismatch ==
    /\ InstStep /\ pc = "loop"
    /\ acts' = <<>>
    /\ current_cycle < max_cycles /\ current_step_index < Len(expected_sequence)
    /\ LET step == Inst_detect(i_screen) IN
        /\ ~IsTerminal(step)
        /\ step # ExpectedStep(current_step_index)
        /\ current_cycle' = current_cycle + 1
        /\ detected' = step
        /\ obs' = RecordObs(obs, step)
        /\ current_step_index' = AdvanceIndex(step, current_step_index)
    /\ UNCHANGED <<i_screen, requires_license_key, pc, result, w_polls,
                   hiRank, reverted, disturbed>>

(* ---- handle_welcome_screen, lines 620-664 ---- *)
\* the 30 s of the timed loop are over: lines 663-664, then 1065-1066
WelTimeout ==
    /\ InstStep /\ pc = "wel_detect"
    /\ w_polls >= MaxWelcomePolls
    /\ DriverFails
    /\ UNCHANGED <<i_screen, requires_license_key, current_cycle, detected, w_polls,
                   obs, hiRank, reverted, disturbed>>

\* lines 632-641
WelDetect ==
    /\ InstStep /\ pc = "wel_detect"
    /\ w_polls < MaxWelcomePolls
    /\ LET step == Inst_detect(i_screen) IN
        /\ detected' = step
        /\ IF step # "welcome" /\ step # "unknown"
           THEN HandlerSucceeded
           ELSE pc' = "wel_click" /\ UNCHANGED <<current_step_index, result, acts>>
    /\ UNCHANGED <<i_screen, requires_license_key, current_cycle, w_polls, obs,
                   hiRank, reverted, disturbed>>

\* line 643, and 660-661 when no Next button is found
WelClick ==
    /\ InstStep /\ pc = "wel_click"
    /\ Activate("next", Inst_click_with_win32gui(i_screen, next_variations))
    /\ IF Inst_click_with_win32gui(i_screen, next_variations)
       THEN /\ Shows(WizardAfterNext(i_screen, requires_license_key))
            /\ pc' = "wel_verify"
            /\ w_polls' = w_polls
       ELSE /\ pc' = "wel_detect"
            /\ w_polls' = w_polls + 1
            /\ UNCHANGED <<i_screen, hiRank, reverted>>
    /\ UNCHANGED <<requires_license_key, current_cycle, current_step_index, result,
                   detected, obs, disturbed>>

\* lines 647-658
WelVerify ==
    /\ InstStep /\ pc = "wel_verify"
    /\ LET new_step == Inst_detect(i_screen) IN
        /\ detected' = new_step
        /\ IF new_step # "welcome" /\ new_step # "unknown"
           THEN HandlerSucceeded /\ w_polls' = w_polls
           ELSE /\ pc' = "wel_detect"
                /\ w_polls' = w_polls + 1
                /\ UNCHANGED <<current_step_index, result, acts>>
    /\ UNCHANGED <<i_screen, requires_license_key, current_cycle, obs,
                   hiRank, reverted, disturbed>>

(* ---- handle_license_agreement, lines 666-751 ---- *)
\* lines 674-684
LicDetect ==
    /\ InstStep /\ pc = "lic_detect"
    /\ LET step == Inst_detect(i_screen) IN
        /\ detected' = step
        /\ IF step = "welcome"
           THEN pc' = "lic_failed" /\ UNCHANGED <<current_step_index, result, acts>>
           ELSE IF step = "activation" THEN HandlerSucceeded
           ELSE IF step = "unknown"
           THEN pc' = "lic_redetect" /\ UNCHANGED <<current_step_index, result, acts>>
           ELSE pc' = "lic_radio" /\ UNCHANGED <<current_step_index, result, acts>>
    /\ UNCHANGED <<i_screen, requires_license_key, current_cycle, w_polls, obs,
                   hiRank, reverted, disturbed>>

\* lines 685-688
LicRedetect ==
    /\ InstStep /\ pc = "lic_redetect"
    /\ LET step == Inst_detect(i_screen) IN
        /\ detected' = step
        /\ IF step = "license"
           THEN pc' = "lic_radio" /\ UNCHANGED <<current_step_index, result, acts>>
           ELSE IF step = "activation" THEN HandlerSucceeded
           ELSE pc' = "lic_failed" /\ UNCHANGED <<current_step_index, result, acts>>
    /\ UNCHANGED <<i_screen, requires_license_key, current_cycle, w_polls, obs,
                   hiRank, reverted, disturbed>>

\* line 707: where the handler goes on after the radio button attempts
LicAfterRadio_AlwaysAccept(radio_clicked) == "lic_accept"

LicAfterRadio(radio_clicked) == IF radio_clicked THEN "lic_next" ELSE "lic_accept"

\* lines 700-705: the acceptance radio button, first variation that is found
LicRadio ==
    /\ InstStep /\ pc = "lic_radio"
    /\ Activate("radio", \E v \in accept_radio_variations : Inst_click_radio_button(i_screen, v))
    /\ pc' = LicAfterRadio(\E v \in accept_radio_variations :
                               Inst_click_radio_button(i_screen, v))
    /\ UNCHANGED <<i_screen, requires_license_key, current_cycle, current_step_index,
                   result, detected, w_polls, obs, hiRank, reverted, disturbed>>

\* lines 707-718: the fallback accept button, found or not
LicAccept ==
    /\ InstStep /\ pc = "lic_accept"
    /\ Activate("accept", Inst_click_with_win32gui(i_screen, accept_variations))
    /\ pc' = "lic_next"
    /\ UNCHANGED <<i_screen, requires_license_key, current_cycle, current_step_index,
                   result, detected, w_polls, obs, hiRank, reverted, disturbed>>

\* lines 724-725, 738-740
LicNext ==
    /\ InstStep /\ pc = "lic_next"
    /\ Activate("next", Inst_click_with_win32gui(i_screen, next_variations))
    /\ IF Inst_click_with_win32gui(i_screen, next_variations)
       THEN Shows(WizardAfterNext(i_screen, requires_license_key)) /\ pc' = "lic_verify"
       ELSE pc' = "lic_fast" /\ UNCHANGED <<i_screen, hiRank, reverted>>
    /\ UNCHANGED <<requires_license_key, current_cycle, current_step_index,
                   result, detected, w_polls, obs, disturbed>>

\* lines 729-737
LicVerify ==
    /\ InstStep /\ pc = "lic_verify"
    /\ LET new_step == Inst_detect(i_screen) IN
        /\ detected' = new_step
        /\ IF new_step = "activation" \/ new_step = "installation" \/ new_step # "license"
           THEN HandlerSucceeded
           ELSE pc' = "lic_failed" /\ UNCHANGED <<current_step_index, result, acts>>
    /\ UNCHANGED <<i_screen, requires_license_key, current_cycle, w_polls, obs,
                   hiRank, reverted, disturbed>>

\* line 741, 750-751
LicFast ==
    /\ InstStep /\ pc = "lic_fast"
    /\ IF Inst_check_for_next_button_fast(i_screen)
       THEN pc' = "lic_fast_detect" /\ UNCHANGED acts
       ELSE pc' = "lic_failed" /\ UNCHANGED acts
    /\ UNCHANGED <<i_screen, requires_license_key, current_cycle, current_step_index,
                   result, detected, w_polls, obs, hiRank, reverted, disturbed>>

\* lines 742-751
LicFastDetect ==
    /\ InstStep /\ pc = "lic_fast_detect"
    /\ LET step == Inst_detect(i_screen) IN
        /\ detected' = step
        /\ IF step = "activation"
           THEN HandlerSucceeded
           ELSE pc' = "lic_failed" /\ UNCHANGED <<current_step_index, result, acts>>
    /\ UNCHANGED <<i_screen, requires_license_key, current_cycle, w_polls, obs,
                   hiRank, reverted, disturbed>>

LicenseFailureRestarts_Always(step) == TRUE

\* line 1070: the run goes on after a failed license handler
LicenseFailureRestarts(step) == step = "welcome"

\* the handler returned False: lines 1068-1074
LicFailed ==
    /\ InstStep /\ pc = "lic_failed"
    /\ LET step == Inst_detect(i_screen) IN
        /\ detected' = step
        /\ IF LicenseFailureRestarts(step)
           THEN /\ current_step_index' = 0
                /\ pc' = "loop"
                /\ result' = result
                /\ acts' = <<>>
           ELSE DriverFails
    /\ UNCHANGED <<i_screen, requires_license_key, current_cycle, w_polls, obs,
                   hiRank, reverted, disturbed>>

(* ---- handle_activation_information, lines 753-776 ---- *)
\* lines 759-760
ActServer ==
    /\ InstStep /\ pc = "act_server"
    /\ IF Inst_fill_field_with_win32gui(i_screen, 0)
       THEN pc' = "act_tag" /\ UNCHANGED <<current_step_index, result>>
            /\ Activate("server", TRUE)
       ELSE DriverFails
    /\ UNCHANGED <<i_screen, requires_license_key, current_cycle, detected, w_polls,
                   obs, hiRank, reverted, disturbed>>

\* line 767: the license key field is filled only when the version needs it
ActAfterTag_NeverLicense(needs_key) == "act_next"

ActAfterTag(needs_key) == IF needs_key THEN "act_license" ELSE "act_next"

\* lines 763-767
ActTag ==
    /\ InstStep /\ pc = "act_tag"
    /\ IF Inst_fill_field_with_win32gui(i_screen, 1)
       THEN /\ pc' = ActAfterTag(requires_license_key)
            /\ UNCHANGED <<current_step_index, result>>
            /\ Activate("tag", TRUE)
       ELSE DriverFails
    /\ UNCHANGED <<i_screen, requires_license_key, current_cycle, detected, w_polls,
                   obs, hiRank, reverted, disturbed>>

\* lines 767-770
ActLicense ==
    /\ InstStep /\ pc = "act_license"
    /\ IF Inst_fill_field_with_win32gui(i_screen, 2)
       THEN pc' = "act_next" /\ UNCHANGED <<current_step_index, result>>
            /\ Activate("license", TRUE)
       ELSE DriverFails
    /\ UNCHANGED <<i_screen, requires_license_key, current_cycle, detected, w_polls,
                   obs, hiRank, reverted, disturbed>>

\* lines 774-776, then 1076-1077 or 1082
ActNext ==
    /\ InstStep /\ pc = "act_next"
    /\ IF Inst_click_with_win32gui(i_screen, next_variations)
       THEN Shows(WizardAfterNext(i_screen, requires_license_key)) /\ HandlerSucceeded
       ELSE DriverFails /\ UNCHANGED <<i_screen, hiRank, reverted>>
    /\ UNCHANGED <<requires_license_key, current_cycle, detected, w_polls, obs,
                   disturbed>>

(* ---- handle_installation, lines 778-789 ---- *)
\* lines 784-787: click Install; if that fails and PYAUTOGUI_AVAILABLE, send
\* Alt+I.  PYAUTOGUI_AVAILABLE is an input of the call.
InstClick ==
    /\ InstStep /\ pc = "inst_click"
    /\ \E pyautogui_available \in BOOLEAN :
        IF Inst_click_with_win32gui(i_screen, {"install"})
        THEN /\ Shows(WizardAfterInstall(i_screen))
             /\ Activate("install", TRUE)
        ELSE /\ UNCHANGED <<i_screen, hiRank, reverted>>
             /\ acts' = IF pyautogui_available
                        THEN <<[ctl |-> "install", ok |-> FALSE],
                               [ctl |-> "alt_i", ok |-> TRUE]>>
                        ELSE <<[ctl |-> "install", ok |-> FALSE]>>
    /\ pc' = "inst_return"
    /\ UNCHANGED <<requires_license_key, current_cycle, current_step_index,
                   result, detected, w_polls, obs, disturbed>>

\* line 789: the value handle_installation returns
Inst_handle_installation(sent) == TRUE

\* lines 789 and 1079-1083
InstReturn ==
    /\ InstStep /\ pc = "inst_return"
    /\ IF Inst_handle_installation(\E i \in 1..Len(acts) : acts[i].ok)
       THEN HandlerSucceeded
       ELSE DriverFails
    /\ UNCHANGED <<i_screen, requires_license_key, current_cycle, detected,
                   w_polls, obs, hiRank, reverted, disturbed>>

\* The wizard replaces its screen by itself (slow repaint, lag, a page skipped).
WizardChange ==
    /\ InstStep
    /\ UNCHANGED acts
    /\ \E s \in InstScreens \ {i_screen} : Shows(s)
    /\ disturbed' = (disturbed \/ obs = WLW)
    /\ UNCHANGED <<requires_license_key, pc, current_cycle, current_step_index,
                   result, detected, w_polls, obs>>

InstDriver ==
    \/ LoopExit \/ LoopComplete \/ LoopDispatch \/ LoopMismatch
    \/ WelTimeout \/ WelDetect \/ WelClick \/ WelVerify
    \/ LicDetect \/ LicRedetect \/ LicRadio \/ LicAccept \/ LicNext
    \/ LicVerify \/ LicFast \/ LicFastDetect \/ LicFailed
    \/ ActServer \/ ActTag \/ ActLicense \/ ActNext
    \/ InstClick \/ InstReturn

InstIdle ==
    /\ i_screen = ScrNone
    /\ requires_license_key = FALSE
    /\ pc = "idle"
    /\ current_cycle = 0
    /\ current_step_index = 0
    /\ result = "idle"
    /\ detected = "none"
    /\ w_polls = 0
    /\ obs = <<>>
    /\ hiRank = 0
    /\ reverted = FALSE
    /\ disturbed = FALSE
    /\ acts = <<>>

(***************************************************************************)
(* Nmap installer: handle_concurrent_installers                            *)
(***************************************************************************)
NoWin == [present |-> FALSE, installing |-> FALSE, buttons |-> {}]
Win(installing, buttons) ==
    [present |-> TRUE, installing |-> installing, buttons |-> buttons]

\* Nmap setup windows (title contains "nmap" and "setup"; `installing` says
\* whether it also contains "installing") and Npcap windows.
NmapWins == {Win(FALSE, {"i agree", "cancel"}),
             Win(FALSE, {"next >", "< back", "cancel"}),
             Win(FALSE, {"install", "< back", "cancel"}),
             Win(TRUE, {"cancel"}),
             Win(FALSE, {"finish"})}
NpcapWins == {Win(FALSE, {"i agree", "cancel"}),
              Win(FALSE, {"install", "< back", "cancel"}),
              Win(FALSE, {"next >", "cancel"}),
              Win(FALSE, {"finish"}),
              Win(FALSE, {"i agree", "install", "cancel"}),
              Win(FALSE, {"install", "finish", "next >"}),
              Win(FALSE, {"uninstall", "close", "next >"})}

\* _handle_npcap_window: the step whose button is clicked, "none" if none
Npcap_click_InstallFirst(controls) ==
    IF \E c \in controls : InStr("install", c) THEN "install"
    ELSE IF \E c \in controls : InStr("i agree", c) THEN "i agree"
    ELSE IF \E c \in controls : \E w \in {"finish", "close", "done"} : InStr(w, c)
    THEN "finish"
    ELSE IF \E c \in controls : InStr("next", c) THEN "next"
    ELSE "none"

Npcap_click(controls) ==
    IF \E c \in controls : InStr("i agree", c) THEN "i agree"
    ELSE IF \E c \in controls : InStr("install", c) /\ ~InStr("uninstall", c)
    THEN "install"
    ELSE IF \E c \in controls : \E w \in {"finish", "close", "done"} : InStr(w, c)
    THEN "finish"
    ELSE IF \E c \in controls : InStr("next", c) THEN "next"
    ELSE "none"

nmap_button_priority == <<"next", "i agree", "agree", "install", "finish", "close">>

\* _handle_nmap_window: the priority word whose button is clicked, "none" if none
Nmap_click(w) ==
    LET hits == {i \in 1..Len(nmap_button_priority) :
                    \E b \in w.buttons : InStr(nmap_button_priority[i], b)}
    IN IF w.installing \/ hits = {} THEN "none"
       ELSE nmap_button_priority[CHOOSE i \in hits : \A j \in hits : i <= j]

\* line 472
ShouldHandleNpcap(npcap_present, npcap_done) == npcap_present /\ ~npcap_done

\* line 479
ShouldHandleNmap_IgnoreNpcap(nmap_present, nmap_done, npcap_present) ==
    nmap_present /\ ~nmap_done

ShouldHandleNmap(nmap_present, nmap_done, npcap_present) ==
    nmap_present /\ ~nmap_done /\ ~npcap_present

MaxTicks == 3

NoTick == [seen_nmap |-> FALSE, seen_npcap |-> FALSE, handler |-> "none",
           clicked_win |-> "none", clicked |-> "none"]

NmapInit ==
    /\ nmap_win \in {NoWin, Win(FALSE, {"i agree", "cancel"})}
    /\ npcap_win = NoWin
    /\ nmap_complete = FALSE
    /\ npcap_complete = FALSE
    /\ n_ticks = 0
    /\ n_state = "running"
    /\ tick = NoTick

NmapIdle ==
    /\ nmap_win = NoWin
    /\ npcap_win = NoWin
    /\ nmap_complete = FALSE
    /\ npcap_complete = FALSE
    /\ n_ticks = 0
    /\ n_state = "idle"
    /\ tick = NoTick

\* A pass of the while loop starts: line 449, and the enumeration 453-469.
NmapPass ==
    /\ n_state = "running"
    /\ n_ticks < MaxTicks
    /\ n_ticks' = n_ticks + 1
    /\ UNCHANGED <<nmap_win, npcap_win, instVars, clsVars, unVars, runVars, cmdVars>>

\* lines 472-476: the Npcap window is handled and the pass ends (continue)
TickNpcap ==
    /\ NmapPass
    /\ ShouldHandleNpcap(npcap_win.present, npcap_complete)
    /\ LET c == Npcap_click(npcap_win.buttons) IN
        tick' = [seen_nmap |-> nmap_win.present, seen_npcap |-> TRUE,
                 handler |-> "npcap",
                 clicked_win |-> IF c = "none" THEN "none" ELSE "npcap",
                 clicked |-> c]
    /\ UNCHANGED <<nmap_complete, npcap_complete, n_state>>

\* lines 479-502, the Nmap window being handled
TickNmap ==
    /\ NmapPass
    /\ ~ShouldHandleNpcap(npcap_win.present, npcap_complete)
    /\ ShouldHandleNmap(nmap_win.present, nmap_complete, npcap_win.present)
    /\ LET c == Nmap_click(nmap_win) IN
        tick' = [seen_nmap |-> TRUE, seen_npcap |-> npcap_win.present,
                 handler |-> "nmap",
                 clicked_win |-> IF c = "none" THEN "none" ELSE "nmap",
                 clicked |-> c]
    /\ npcap_complete' = (npcap_complete \/ ~npcap_win.present)
    /\ nmap_complete' = (nmap_complete \/ ~nmap_win.present)
    /\ UNCHANGED n_state

\* lines 479-502, no window being handled and some window enumerated
TickIdle ==
    /\ NmapPass
    /\ ~ShouldHandleNpcap(npcap_win.present, npcap_complete)
    /\ ~ShouldHandleNmap(nmap_win.present, nmap_complete, npcap_win.present)
    /\ nmap_win.present \/ npcap_win.present
    /\ tick' = [seen_nmap |-> nmap_win.present, seen_npcap |-> npcap_win.present,
                handler |-> "none", clicked_win |-> "none", clicked |-> "none"]
    /\ npcap_complete' = (npcap_complete \/ ~npcap_win.present)
    /\ nmap_complete' = (nmap_complete \/ ~nmap_win.present)
    /\ UNCHANGED n_state

\* lines 484-496: no installer window enumerated, the loop is left
TickBreak ==
    /\ NmapPass
    /\ ~nmap_win.present /\ ~npcap_win.present
    /\ tick' = NoTick
    /\ npcap_complete' = TRUE
    /\ nmap_complete' = TRUE
    /\ n_state' = "returned"

\* line 449 false after max_duration: line 508
NmapTimeout ==
    /\ n_state = "running"
    /\ n_ticks >= MaxTicks
    /\ n_state' = "returned"
    /\ UNCHANGED <<nmap_win, npcap_win, nmap_complete, npcap_complete, n_ticks,
                   tick, instVars, clsVars, unVars, runVars, cmdVars>>

\* The installers open, replace and close their windows between two passes.
NmapWindowsChange ==
    /\ n_state = "running"
    /\ \E a \in NmapWins \cup {NoWin}, b \in NpcapWins \cup {NoWin} :
        /\ <<a, b>> # <<nmap_win, npcap_win>>
        /\ nmap_win' = a
        /\ npcap_win' = b
    /\ UNCHANGED <<nmap_complete, npcap_complete, n_ticks, n_state, tick,
                   instVars, clsVars, unVars, runVars, cmdVars>>

(***************************************************************************)
(* EDR uninstaller: step classifier                                        *)
(***************************************************************************)
\* self.edr_version.startswith('1.')
IsV1(version) == version \in {"1.x.x", "1.8.1"}

UnNav(buttons) ==
    /\ AnyIn({"back", "< back"}, buttons)
    /\ AnyIn({"next", "next >", "continue"}, buttons)
    /\ AnyIn({"cancel"}, buttons)

Un_detect_current_step_RemoveFirst(buttons, radio_buttons, text_areas, version) ==
    IF AnyIn({"remove", "uninstall", "delete"}, buttons) THEN "remove"
    ELSE IF AnyIn({"finish", "close", "done", "exit"}, buttons) THEN "complete"
    ELSE "unknown"

Un_detect_current_step_TwoFields(buttons, radio_buttons, text_areas, version) ==
    IF AnyIn({"finish", "close", "done", "exit"}, buttons) THEN "complete"
    ELSE IF AnyIn({"remove", "uninstall", "delete"}, buttons) THEN "remove"
    ELSE IF AnyIn({"yes", "ok", "confirm"}, buttons) THEN "confirmation"
    ELSE IF ~IsV1(version)
    THEN IF UnNav(buttons) /\ Cardinality(radio_buttons) >= 2 /\ text_areas >= 2
         THEN "verification"
         ELSE IF UnNav(buttons) /\ Cardinality(radio_buttons) = 0 /\ text_areas = 0
         THEN "welcome"
         ELSE "unknown"
    ELSE IF AnyIn({"next", "next >", "continue"}, buttons) THEN "welcome"
    ELSE "unknown"

Un_detect_current_step(buttons, radio_buttons, text_areas, version) ==
    IF AnyIn({"finish", "close", "done", "exit"}, buttons) THEN "complete"
    ELSE IF AnyIn({"remove", "uninstall", "delete"}, buttons) THEN "remove"
    ELSE IF AnyIn({"yes", "ok", "confirm"}, buttons) THEN "confirmation"
    ELSE IF ~IsV1(version)
    THEN IF UnNav(buttons) /\ Cardinality(radio_buttons) >= 2 /\ text_areas >= 1
         THEN "verification"
         ELSE IF UnNav(buttons) /\ Cardinality(radio_buttons) = 0 /\ text_areas = 0
         THEN "welcome"
         ELSE "unknown"
    ELSE IF AnyIn({"next", "next >", "continue"}, buttons) THEN "welcome"
    ELSE "unknown"

(***************************************************************************)
(* The two classifiers applied to one signature                            *)
(***************************************************************************)
MaxEdits == 2

ClsLabels == {"finish", "close", "done", "exit", "install", "remove", "ok",
              "next >", "next", "< back", "back", "cancel", ACCEPT}
ClsRadioSets == {{}, {"enter password"}, {"enter password", "use key file"}}
ClsVersions == {"1.x.x", "2.x.x"}

NoStep == [inst |-> "none", un |-> "none"]

ClsInit ==
    /\ c_sig \in [buttons : SUBSET ClsLabels, radios : ClsRadioSets,
                  edits : 0..MaxEdits, version : ClsVersions]
    /\ c_step = NoStep
    /\ c_count = 0

ClsIdle ==
    /\ c_sig = [buttons |-> {}, radios |-> {}, edits |-> 0, version |-> "2.x.x"]
    /\ c_step = [inst |-> "idle", un |-> "idle"]
    /\ c_count = 0

\* detect_current_step of both scripts on the signature
Classify ==
    /\ c_step = NoStep
    /\ c_count' = 1
    /\ c_step' = [inst |-> Inst_detect_current_step(c_sig.buttons, c_sig.edits),
                  un |-> Un_detect_current_step(c_sig.buttons, c_sig.radios,
                                                c_sig.edits, c_sig.version)]
    /\ UNCHANGED <<c_sig, instVars, nmapVars, unVars, runVars, cmdVars>>

MaxClassifications == 2

\* detect_current_step of both scripts, called again on the same signature
Reclassify ==
    /\ c_step # NoStep
    /\ c_count >= 1 /\ c_count < MaxClassifications
    /\ c_count' = c_count + 1
    /\ c_step' = [inst |-> Inst_detect_current_step(c_sig.buttons, c_sig.edits),
                  un |-> Un_detect_current_step(c_sig.buttons, c_sig.radios,
                                                c_sig.edits, c_sig.version)]
    /\ UNCHANGED <<c_sig, instVars, nmapVars, unVars, runVars, cmdVars>>

ClassifyNext == Classify \/ Reclassify

(***************************************************************************)
(* EDR uninstaller: the V2 wizard and run_uninstallation                   *)
(***************************************************************************)
\* A wizard page: the texts of its Button-class controls (radio buttons are
\* Button-class controls too), its radio buttons, its edit controls and how
\* many of these carry the password style.
UPage(buttons, radios, edits, pwd) ==
    [buttons |-> buttons \cup radios, radios |-> radios, edits |-> edits,
     pwd |-> pwd]

UWelcome == UPage(NavTriple, {}, 0, 0)
UVerify == UPage(NavTriple, {"enter password", "use key file"}, 1, 0)
URadiosOnly == UPage(NavTriple, {ACCEPT, DECLINE}, 0, 0)
UFieldsOnly == UPage(NavTriple, {}, 2, 0)
URemove == UPage({"remove", "< back", "cancel"}, {}, 0, 0)
UProgress == UPage({"cancel"}, {}, 0, 0)
UFinish == UPage({"finish"}, {}, 0, 0)

\* The screens a wizard shows, in order.
ScenarioA == <<UWelcome, URadiosOnly, UFieldsOnly, URemove, UFinish>>
ScenarioV2 == <<UWelcome, UVerify, URemove, UFinish>>
ScenarioV2Progress == <<UWelcome, UVerify, URemove, UProgress, UFinish>>
\* a wizard that asks for no credential
ScenarioNoVerify == <<UWelcome, URemove, UFinish>>
UnWizards == {ScenarioA, ScenarioV2, ScenarioV2Progress, ScenarioNoVerify}

Un_detect(s) == Un_detect_current_step(s.buttons, s.radios, s.edits, "2.x.x")

\* click_with_win32gui: a Button control whose text contains button_text
Un_click_with_win32gui(s, button_text) ==
    \E b \in s.buttons : InStr(button_text, b)

\* click_radio_button: a radio button whose text contains radio_text
Un_click_radio_button(s, radio_text) ==
    \E r \in s.radios : InStr(radio_text, r)

\* fill_password_field: a password edit, else any edit control
Un_fill_password_field(s) == s.edits >= 1

\* fill_key_file_path: the first edit control without the password style
Un_fill_key_file_path(s) == s.edits - s.pwd >= 1

remove_variations == {"remove", "uninstall", "delete"}

\* One poll of wait_for_completion (lines 1076-1088)
Wfc_poll_FinishFirst(error_dialog, finish_clicked) ==
    IF finish_clicked THEN "success"
    ELSE IF error_dialog THEN "failure"
    ELSE "wait"

Wfc_poll(error_dialog, finish_clicked) ==
    IF error_dialog THEN "failure"
    ELSE IF finish_clicked THEN "success"
    ELSE "wait"

\* handle_uninstallation_error (lines 824-852) on wizard screen s: the clicks
\* it tries, in order, each with whether a button was found and clicked.
\* dialog_ok: FindWindowEx found the dialog's own OK button.
Un_handle_uninstallation_error_NoCancel(s, dialog_ok) ==
    << [ctl |-> "ok", ok |-> dialog_ok \/ Un_click_with_win32gui(s, "ok")],
       [ctl |-> "finish", ok |-> Un_click_with_win32gui(s, "finish")] >>

Un_handle_uninstallation_error(s, dialog_ok) ==
    << [ctl |-> "ok", ok |-> dialog_ok \/ Un_click_with_win32gui(s, "ok")],
       [ctl |-> "cancel", ok |-> Un_click_with_win32gui(s, "cancel")],
       [ctl |-> "finish", ok |-> Un_click_with_win32gui(s, "finish")] >>

MaxUnWelcomePolls == 2
MaxCompletionPolls == 2

UnInit ==
    /\ u_wizard \in UnWizards
    /\ u_page = 1
    /\ u_dialog = FALSE
    /\ u_cred \in {"password", "key_file"}
    /\ u_pyautogui \in BOOLEAN
    /\ u_pc = "wel_detect"
    /\ u_result = "running"
    /\ u_polls = 0
    /\ u_trace = <<Un_detect(u_wizard[1])>>
    /\ u_hist = [dialog |-> "none", detected |-> FALSE, finished |-> FALSE,
                 recovery |-> <<>>]

UnIdle ==
    /\ u_wizard = ScenarioV2
    /\ u_page = 1
    /\ u_dialog = FALSE
    /\ u_cred = "password"
    /\ u_pyautogui = FALSE
    /\ u_pc = "idle"
    /\ u_result = "idle"
    /\ u_polls = 0
    /\ u_trace = <<>>
    /\ u_hist = [dialog |-> "none", detected |-> FALSE, finished |-> FALSE,
                 recovery |-> <<>>]

UScreen == u_wizard[u_page]

UnStep ==
    /\ u_result = "running"
    /\ UNCHANGED <<u_wizard, u_cred, u_pyautogui, instVars, nmapVars, clsVars,
                   runVars, cmdVars>>

\* The wizard's answer to a click on one of its buttons: it shows its next
\* page; under an error dialog it may also ignore the click.
UShows(clicked) ==
    /\ u_page' \in IF clicked /\ u_page < Len(u_wizard)
                   THEN IF u_dialog THEN {u_page, u_page + 1} ELSE {u_page + 1}
                   ELSE {u_page}
    /\ u_trace' = IF u_page' # u_page
                  THEN Append(u_trace, Un_detect(u_wizard[u_page']))
                  ELSE u_trace

UFails ==
    /\ u_result' = "failure"
    /\ u_pc' = "done"

\* handle_welcome_screen, line 909 false: the 30 seconds are over
U_WelTimeout ==
    /\ UnStep
    /\ u_pc = "wel_detect"
    /\ u_polls >= MaxUnWelcomePolls
    /\ UFails
    /\ UNCHANGED <<u_page, u_dialog, u_polls, u_trace, u_hist>>

\* handle_welcome_screen, lines 911-940
U_WelDetect ==
    /\ UnStep
    /\ u_pc = "wel_detect"
    /\ u_polls < MaxUnWelcomePolls
    /\ LET current_step == Un_detect(UScreen) IN
        IF current_step \in {"verification", "remove", "complete"}
        THEN u_pc' = "ver_radio" /\ u_polls' = 0
        ELSE IF current_step = "welcome"
        THEN u_pc' = "wel_click" /\ u_polls' = u_polls
        ELSE u_pc' = "wel_detect" /\ u_polls' = u_polls + 1
    /\ UNCHANGED <<u_page, u_dialog, u_result, u_trace, u_hist>>

\* handle_welcome_screen, line 941
U_WelClick ==
    /\ UnStep
    /\ u_pc = "wel_click"
    /\ LET clicked == Un_click_with_win32gui(UScreen, "next") IN
        /\ UShows(clicked)
        /\ IF clicked
           THEN u_pc' = "wel_verify" /\ u_polls' = u_polls
           ELSE u_pc' = "wel_detect" /\ u_polls' = u_polls + 1
    /\ UNCHANGED <<u_dialog, u_result, u_hist>>

\* handle_welcome_screen, lines 945-954
U_WelVerify ==
    /\ UnStep
    /\ u_pc = "wel_verify"
    /\ LET new_step == Un_detect(UScreen) IN
        IF new_step \notin {"welcome", "unknown"}
        THEN u_pc' = "ver_radio" /\ u_polls' = 0
        ELSE u_pc' = "wel_detect" /\ u_polls' = u_polls + 1
    /\ UNCHANGED <<u_page, u_dialog, u_result, u_trace, u_hist>>

\* handle_verification_screen, lines 964-967 and 972-975
U_VerRadio ==
    /\ UnStep
    /\ u_pc = "ver_radio"
    /\ IF u_cred = "password" \/ Un_click_radio_button(UScreen, "use key file")
       THEN u_pc' = "ver_fill" /\ u_result' = u_result
       ELSE UFails
    /\ UNCHANGED <<u_page, u_dialog, u_polls, u_trace, u_hist>>

\* handle_verification_screen, lines 969-970 and 977-978
U_VerFill ==
    /\ UnStep
    /\ u_pc = "ver_fill"
    /\ IF \/ u_cred = "password" /\ Un_fill_password_field(UScreen)
          \/ u_cred = "key_file" /\ Un_fill_key_file_path(UScreen)
       THEN u_pc' = "ver_next" /\ u_result' = u_result
       ELSE UFails
    /\ UNCHANGED <<u_page, u_dialog, u_polls, u_trace, u_hist>>

\* handle_verification_screen, line 981
U_VerNext ==
    /\ UnStep
    /\ u_pc = "ver_next"
    /\ LET clicked == Un_click_with_win32gui(UScreen, "next") IN
        /\ UShows(clicked)
        /\ IF clicked
           THEN u_pc' = "rem_click" /\ u_result' = u_result
           ELSE UFails
    /\ UNCHANGED <<u_dialog, u_polls, u_hist>>

\* handle_remove_screen
U_RemClick ==
    /\ UnStep
    /\ u_pc = "rem_click"
    /\ LET clicked == \E v \in remove_variations : Un_click_with_win32gui(UScreen, v) IN
        /\ UShows(clicked)
        /\ IF clicked \/ u_pyautogui
           THEN u_pc' = "wfc_poll" /\ u_result' = u_result
           ELSE UFails
    /\ UNCHANGED <<u_dialog, u_polls, u_hist>>

\* wait_for_completion, line 1072 false: the 300 seconds are over
U_WfcTimeout ==
    /\ UnStep
    /\ u_pc = "wfc_poll"
    /\ u_polls >= MaxCompletionPolls
    /\ UFails
    /\ UNCHANGED <<u_page, u_dialog, u_polls, u_trace, u_hist>>

\* wait_for_completion, one poll: lines 1076-1088, with
\* handle_uninstallation_error dismissing the dialog it was given
U_WfcPoll ==
    /\ UnStep
    /\ u_pc = "wfc_poll"
    /\ u_polls < MaxCompletionPolls
    /\ LET finish_clicked == Un_click_with_win32gui(UScreen, "finish")
           outcome == Wfc_poll(u_dialog, finish_clicked)
       IN /\ \E dialog_ok \in IF u_dialog THEN BOOLEAN ELSE {FALSE} :
                u_hist' = [u_hist EXCEPT
                    !.detected = @ \/ u_dialog,
                    !.finished = @ \/ (outcome = "success"),
                    !.recovery = IF u_dialog
                                 THEN Un_handle_uninstallation_error(UScreen, dialog_ok)
                                 ELSE @]
          /\ u_dialog' = FALSE
          /\ IF outcome = "wait"
             THEN /\ u_polls' = u_polls + 1
                  /\ UNCHANGED <<u_pc, u_result>>
             ELSE /\ u_result' = outcome
                  /\ u_pc' = "done"
                  /\ u_polls' = u_polls
    /\ UNCHANGED <<u_page, u_trace>>

\* The removal ends and the wizard shows its last page.
U_WizardProgress ==
    /\ UnStep
    /\ UScreen = UProgress
    /\ ~u_dialog
    /\ UShows(TRUE)
    /\ UNCHANGED <<u_dialog, u_pc, u_result, u_polls, u_hist>>

\* An error dialog (check_for_error_dialog's titles) comes up.
U_ErrorDialog ==
    /\ UnStep
    /\ ~u_dialog
    /\ u_hist.dialog = "none"
    /\ u_dialog' = TRUE
    /\ u_hist' = [u_hist EXCEPT !.dialog =
                    IF u_pc \in {"wel_detect", "wel_click", "wel_verify"}
                    THEN "at_welcome" ELSE "after_welcome"]
    /\ UNCHANGED <<u_page, u_pc, u_result, u_polls, u_trace>>

NoEnv == [file_exists |-> TRUE, is_admin |-> TRUE, existing |-> FALSE,
          cred |-> "none", key_file_exists |-> TRUE, version |-> "2.x.x",
          pyautogui |-> FALSE]

RunIdle ==
    /\ r_script = "none"
    /\ r_env = NoEnv
    /\ r_pc = "idle"
    /\ r_result = "idle"
    /\ r_log = <<>>
    /\ r_events = {}

UnNext ==
    \/ U_WelTimeout \/ U_WelDetect \/ U_WelClick \/ U_WelVerify
    \/ U_VerRadio \/ U_VerFill \/ U_VerNext \/ U_RemClick
    \/ U_WfcTimeout \/ U_WfcPoll
    \/ U_WizardProgress \/ U_ErrorDialog

UninstInit == InstIdle /\ NmapIdle /\ ClsIdle /\ UnInit /\ RunIdle /\ CmdIdle

SpecUninst == UninstInit /\ [][UnNext]_vars

Init == InstInit /\ NmapIdle /\ ClsIdle /\ UnIdle /\ RunIdle /\ CmdIdle

Next == InstDriver \/ WizardChange

Spec == Init /\ [][Next]_vars

\* The install driver as InstInit starts it, observed without the histories
\* obs, hiRank, reverted and disturbed: each starts at the value it keeps.
InstInitUnobserved ==
    /\ i_screen \in {ScrNone, ScrWelcome}
    /\ requires_license_key \in BOOLEAN
    /\ pc = "loop"
    /\ current_cycle = 0
    /\ current_step_index = 0
    /\ result = "running"
    /\ detected = "none"
    /\ w_polls = 0
    /\ obs = Diverged
    /\ hiRank = 0
    /\ reverted = TRUE
    /\ disturbed = TRUE
    /\ acts = <<>>

FairInit == InstInitUnobserved /\ NmapIdle /\ ClsIdle /\ UnIdle /\ RunIdle /\ CmdIdle

\* The script's thread keeps running: a driver step that is possible is taken.
SpecFair == FairInit /\ [][Next]_vars /\ WF_vars(InstDriver)

NmapNext ==
    \/ TickNpcap \/ TickNmap \/ TickIdle \/ TickBreak \/ NmapTimeout
    \/ NmapWindowsChange

NmapOnlyInit == InstIdle /\ NmapInit /\ ClsIdle /\ UnIdle /\ RunIdle /\ CmdIdle

SpecNmap == NmapOnlyInit /\ [][NmapNext]_vars

ClassifyInit == InstIdle /\ NmapIdle /\ ClsInit /\ UnIdle /\ RunIdle /\ CmdIdle

SpecClassify == ClassifyInit /\ [][ClassifyNext]_vars

(***************************************************************************)
(* EDR uninstaller: one call of detect_current_step against a wizard that  *)
(* may replace its page between the call's three enumerations.  c_sig      *)
(* holds what the call has read so far, u_trace the steps of the pages     *)
(* shown since the call began.                                             *)
(***************************************************************************)
DetectInit ==
    /\ u_wizard \in UnWizards
    /\ u_page \in 1..Len(u_wizard)
    /\ u_dialog = FALSE
    /\ u_cred = "password"
    /\ u_pyautogui = FALSE
    /\ u_pc = "scan_buttons"
    /\ u_result = "running"
    /\ u_polls = 0
    /\ u_trace = <<Un_detect(u_wizard[u_page])>>
    /\ u_hist = [dialog |-> "none", detected |-> FALSE, finished |-> FALSE,
                 recovery |-> <<>>]
    /\ c_sig = [buttons |-> {}, radios |-> {}, edits |-> 0, version |-> "2.x.x"]
    /\ c_step = NoStep
    /\ c_count = 0

DetectStep ==
    UNCHANGED <<u_wizard, u_dialog, u_cred, u_pyautogui, u_result, u_polls,
                u_hist, instVars, nmapVars, runVars, cmdVars>>

\* line 314: buttons = self.scan_available_buttons()
D_ScanButtons ==
    /\ DetectStep /\ u_pc = "scan_buttons"
    /\ c_sig' = [c_sig EXCEPT !.buttons = UScreen.buttons]
    /\ u_pc' = "scan_radios"
    /\ UNCHANGED <<u_page, u_trace, c_step, c_count>>

\* line 315: radio_buttons = self._scan_radio_buttons()
D_ScanRadios ==
    /\ DetectStep /\ u_pc = "scan_radios"
    /\ c_sig' = [c_sig EXCEPT !.radios = UScreen.radios]
    /\ u_pc' = "count_text_areas"
    /\ UNCHANGED <<u_page, u_trace, c_step, c_count>>

\* line 316: text_areas = self._count_text_areas()
D_CountTextAreas ==
    /\ DetectStep /\ u_pc = "count_text_areas"
    /\ c_sig' = [c_sig EXCEPT !.edits = UScreen.edits]
    /\ u_pc' = "classify"
    /\ UNCHANGED <<u_page, u_trace, c_step, c_count>>

\* lines 326-357: the step returned for what was read
D_Classify ==
    /\ DetectStep /\ u_pc = "classify"
    /\ c_step' = [inst |-> "none",
                  un |-> Un_detect_current_step(c_sig.buttons, c_sig.radios,
                                                c_sig.edits, c_sig.version)]
    /\ c_count' = 1
    /\ u_pc' = "returned"
    /\ UNCHANGED <<u_page, u_trace, c_sig>>

\* The wizard shows its next page while the call is running.
D_WizardAdvances ==
    /\ DetectStep /\ u_pc # "returned"
    /\ u_page < Len(u_wizard)
    /\ u_page' = u_page + 1
    /\ u_trace' = Append(u_trace, Un_detect(u_wizard[u_page + 1]))
    /\ UNCHANGED <<u_pc, clsVars>>

DetectNext ==
    \/ D_ScanButtons \/ D_ScanRadios \/ D_CountTextAreas \/ D_Classify
    \/ D_WizardAdvances

DetectOnlyInit == InstIdle /\ NmapIdle /\ DetectInit /\ RunIdle /\ CmdIdle

SpecDetect == DetectOnlyInit /\ [][DetectNext]_vars

CmdOnlyInit == InstIdle /\ NmapIdle /\ ClsIdle /\ UnIdle /\ RunIdle /\ CmdInit

SpecCmd == CmdOnlyInit /\ [][CmdNext]_vars

(***************************************************************************)
(* run_installation / run_uninstallation of the three scripts: the calls   *)
(* they make, in order, and what they return                               *)
(***************************************************************************)
RunScripts == {"nmap", "edr_install", "edr_uninstall"}

RunEnvs == [file_exists : BOOLEAN, is_admin : BOOLEAN, existing : BOOLEAN,
            cred : {"none", "password", "keyfile"}, key_file_exists : BOOLEAN,
            version : {"1.x.x", "2.x.x"}, pyautogui : BOOLEAN]

\* NmapInstaller.validate_prerequisites
Nmap_validate_prerequisites(env) == env.file_exists /\ env.is_admin

\* TehtrisEDRInstaller.validate_prerequisites
Inst_validate_prerequisites_FileOnly(env) == env.file_exists

Inst_validate_prerequisites(env) == env.file_exists /\ env.is_admin

\* TehtrisEDRUninstaller.validate_prerequisites
Un_validate_prerequisites(env) ==
    IF IsV1(env.version)
    THEN ~(env.cred = "keyfile" /\ ~env.key_file_exists)
    ELSE /\ env.cred # "none"
         /\ ~(env.cred = "keyfile" /\ ~env.key_file_exists)

\* handle_concurrent_installers: its return value when the loop was left by
\* break ("finished") or by the 300 s limit ("timeout")
Nmap_handle_concurrent_installers(outcome) == TRUE

\* NmapInstaller.run_installation, lines 660-666: the value returned after
\* verify_installation
Nmap_run_result(verified) == TRUE

\* TehtrisEDRInstaller.wait_for_completion: a Finish or Close button was
\* clicked ("finished"), or the 180 s are over ("timeout")
Inst_wait_for_completion(outcome, pyautogui) ==
    IF outcome = "finished" THEN TRUE ELSE pyautogui

\* TehtrisEDRUninstaller._verify_v1_uninstall_result
Un_verify_v1_uninstall_result_Both(exit0, stopped) == exit0 /\ stopped

Un_verify_v1_uninstall_result(exit0, stopped) == exit0 \/ stopped

RunInit ==
    /\ r_script \in RunScripts
    /\ r_env \in RunEnvs
    /\ r_pc = "start"
    /\ r_result = "running"
    /\ r_log = <<>>
    /\ r_events = {}

RunStep(script, at) ==
    /\ r_result = "running"
    /\ r_script = script
    /\ r_pc = at
    /\ UNCHANGED <<r_script, r_env, instVars, nmapVars, clsVars, unVars,
                   cmdVars>>

RunCall(name) == r_log' = Append(r_log, name)

\* `if not self.<call>(): return False`
RunReturn(ok, then) ==
    IF ok THEN r_pc' = then /\ r_result' = r_result
    ELSE r_pc' = "done" /\ r_result' = "failure"

\* the run returns ok
RunEnds(ok) ==
    /\ r_pc' = "done"
    /\ r_result' = IF ok THEN "success" ELSE "failure"

(* ---- NmapInstaller.run_installation, lines 644-669 ---- *)
R_NmapPrereq ==
    /\ RunStep("nmap", "start")
    /\ RunCall("validate_prerequisites")
    /\ RunReturn(Nmap_validate_prerequisites(r_env), "launch")
    /\ UNCHANGED r_events

R_NmapLaunch ==
    /\ RunStep("nmap", "launch")
    /\ RunCall("launch_installer")
    /\ \E ok \in BOOLEAN : RunReturn(ok, "drive")
    /\ UNCHANGED r_events

R_NmapDrive ==
    /\ RunStep("nmap", "drive")
    /\ RunCall("handle_concurrent_installers")
    /\ \E outcome \in {"finished", "timeout"} :
        /\ r_events' = r_events \cup
              (IF outcome = "timeout" THEN {"timeout_concurrent"} ELSE {})
        /\ RunReturn(Nmap_handle_concurrent_installers(outcome), "verify")

R_NmapVerify ==
    /\ RunStep("nmap", "verify")
    /\ RunCall("verify_installation")
    /\ \E verified \in BOOLEAN :
        /\ r_events' = r_events \cup {IF verified THEN "verified" ELSE "verify_failed"}
        /\ RunEnds(Nmap_run_result(verified))

(* ---- TehtrisEDRInstaller.run_installation, lines 991-1040 ---- *)
\* lines 996-1001
R_InstExisting ==
    /\ RunStep("edr_install", "start")
    /\ RunCall("check_existing")
    /\ IF r_env.existing
       THEN RunReturn(r_env.cred # "none", "uninstall_existing")
       ELSE RunReturn(TRUE, "prereq")
    /\ UNCHANGED r_events

\* lines 1003-1011
R_InstUninstallExisting ==
    /\ RunStep("edr_install", "uninstall_existing")
    /\ RunCall("uninstall_existing_edr")
    /\ \E ok \in BOOLEAN : RunReturn(ok, "prereq")
    /\ UNCHANGED r_events

\* lines 1013-1014
R_InstPrereq ==
    /\ RunStep("edr_install", "prereq")
    /\ RunCall("validate_prerequisites")
    /\ RunReturn(Inst_validate_prerequisites(r_env), "launch")
    /\ UNCHANGED r_events

\* lines 1017-1018
R_InstLaunch ==
    /\ RunStep("edr_install", "launch")
    /\ RunCall("launch_installer")
    /\ \E ok \in BOOLEAN : RunReturn(ok, "drive")
    /\ UNCHANGED r_events

\* lines 1022-1026
R_InstDrive ==
    /\ RunStep("edr_install", "drive")
    /\ RunCall("_run_optimized_installation_steps")
    /\ \E outcome \in {"ok", "handler_failed", "welcome_timeout", "max_cycles"} :
        /\ r_events' = r_events \cup
              (IF outcome \in {"welcome_timeout", "max_cycles"}
               THEN {"timeout_steps"} ELSE {})
        /\ RunReturn(outcome = "ok", "wait")

\* lines 1028-1029
R_InstWait ==
    /\ RunStep("edr_install", "wait")
    /\ RunCall("wait_for_completion")
    /\ \E outcome \in {"finished", "timeout"} :
        /\ r_events' = r_events \cup
              (IF outcome = "timeout" THEN {"timeout_wait"} ELSE {})
        /\ RunReturn(Inst_wait_for_completion(outcome, r_env.pyautogui), "verify")

\* lines 1032-1036
R_InstVerify ==
    /\ RunStep("edr_install", "verify")
    /\ RunCall("verify_installation")
    /\ \E verified \in BOOLEAN :
        /\ r_events' = r_events \cup {IF verified THEN "verified" ELSE "verify_failed"}
        /\ RunEnds(verified)

(* ---- TehtrisEDRUninstaller.run_uninstallation, lines 1093-1141 ---- *)
\* lines 1098-1099
R_UnPrereq ==
    /\ RunStep("edr_uninstall", "start")
    /\ RunCall("validate_prerequisites")
    /\ RunReturn(Un_validate_prerequisites(r_env), "launch")
    /\ UNCHANGED r_events

\* lines 1102-1103 with find_and_launch_uninstaller: the registry has no
\* uninstaller ("not_found"); V1: the silent command ran to its end, with
\* exit code 0 or not, or hit its 300 s; V2: the setup window appeared, or
\* did not within 30 s.
R_UnLaunch ==
    /\ RunStep("edr_uninstall", "launch")
    /\ RunCall("find_and_launch_uninstaller")
    /\ \E outcome \in {"not_found", "launched", "timeout"}, exit0 \in BOOLEAN :
        /\ r_events' = r_events \cup
              (IF outcome = "timeout"
               THEN {IF IsV1(r_env.version) THEN "timeout_command" ELSE "timeout_window"}
               ELSE IF outcome = "launched" /\ IsV1(r_env.version)
               THEN {"command_completed"} \cup (IF exit0 THEN {"exit0"} ELSE {})
               ELSE {})
        /\ RunReturn(outcome = "launched",
                     IF IsV1(r_env.version) THEN "v1_verify" ELSE "welcome")

\* lines 1106-1107
R_UnV1Verify ==
    /\ RunStep("edr_uninstall", "v1_verify")
    /\ RunCall("_verify_v1_uninstall_result")
    /\ \E stopped \in BOOLEAN :
        /\ r_events' = r_events \cup (IF stopped THEN {"stopped"} ELSE {})
        /\ RunEnds(Un_verify_v1_uninstall_result("exit0" \in r_events, stopped))

\* lines 1117-1118
R_UnWelcome ==
    /\ RunStep("edr_uninstall", "welcome")
    /\ RunCall("handle_welcome_screen")
    /\ \E outcome \in {"ok", "timeout"} :
        /\ r_events' = r_events \cup
              (IF outcome = "timeout" THEN {"timeout_welcome"} ELSE {})
        /\ RunReturn(outcome = "ok", "verification")

\* lines 1121-1122
R_UnVerification ==
    /\ RunStep("edr_uninstall", "verification")
    /\ RunCall("handle_verification_screen")
    /\ \E ok \in BOOLEAN : RunReturn(ok, "remove")
    /\ UNCHANGED r_events

\* lines 1125-1126
R_UnRemove ==
    /\ RunStep("edr_uninstall", "remove")
    /\ RunCall("handle_remove_screen")
    /\ \E ok \in BOOLEAN : RunReturn(ok, "wait")
    /\ UNCHANGED r_events

\* lines 1129-1137
R_UnWait ==
    /\ RunStep("edr_uninstall", "wait")
    /\ RunCall("wait_for_completion")
    /\ \E outcome \in {"finished", "error_dialog", "timeout"} :
        /\ r_events' = r_events \cup
              (IF outcome = "timeout" THEN {"timeout_wait"} ELSE {})
        /\ RunEnds(outcome = "finished")

RunNext ==
    \/ R_NmapPrereq \/ R_NmapLaunch \/ R_NmapDrive \/ R_NmapVerify
    \/ R_InstExisting \/ R_InstUninstallExisting \/ R_InstPrereq \/ R_InstLaunch
    \/ R_InstDrive \/ R_InstWait \/ R_InstVerify
    \/ R_UnPrereq \/ R_UnLaunch \/ R_UnV1Verify
    \/ R_UnWelcome \/ R_UnVerification \/ R_UnRemove \/ R_UnWait

RunOnlyInit == InstIdle /\ NmapIdle /\ ClsIdle /\ UnIdle /\ RunInit /\ CmdIdle

SpecRun == RunOnlyInit /\ [][RunNext]_vars

(***************************************************************************)
(* Properties of the EDR install driver                                    *)
(***************************************************************************)
\* C1: regression recovery.  When the loop's observations are welcome,
\* license, welcome, current_step_index is 0 right after the third
\* observation; and if from then on the wizard changes only in answer to
\* the driver's clicks (it replays the canonical sequence), the driver does
\* not return failure and needs at most one more pass over the sequence.
C1_RegressionRecovery ==
    /\ [][(obs # WLW /\ obs' = WLW) => current_step_index' = 0]_vars
    /\ [](obs = WLW /\ ~disturbed =>
            /\ result # "failure"
            /\ current_cycle <= Len(WLW) + Len(expected_sequence))

C1_Witness == obs = WLW /\ ~disturbed /\ result = "success"

C3_IndexChanges ==
    [][current_step_index' # current_step_index =>
          \/ current_step_index' > current_step_index
          \/ /\ current_step_index' = 0
             /\ InSequence(detected')
             /\ SeqIndex(detected') < current_step_index]_vars

C3_Witness ==
    /\ obs = WLW /\ current_cycle = Len(WLW)
    /\ pc = "loop" /\ current_step_index = 0

\* C4: In every pass of handle_concurrent_installers that enumerates both an
\* Nmap setup window and an Npcap window, _handle_nmap_window is not invoked,
\* no click goes to the Nmap window and nmap_complete keeps its value.
C4_PriorityExclusive ==
    [][(n_ticks' = n_ticks + 1 /\ tick'.seen_nmap /\ tick'.seen_npcap) =>
          /\ tick'.handler # "nmap"
          /\ tick'.clicked_win # "nmap"
          /\ nmap_complete' = nmap_complete]_vars

C4_Witness ==
    /\ tick.seen_nmap /\ tick.seen_npcap
    /\ tick.handler = "npcap"
    /\ tick.clicked_win = "npcap"

\* C5: In every pass of handle_concurrent_installers that enumerates an Npcap
\* window, _handle_npcap_window is invoked on it, also when the window first
\* appears after passes that saw only the Nmap window.
C5_NpcapAlwaysHandled ==
    tick.seen_npcap => tick.handler = "npcap"

\* C6: The installer's detect_current_step returns 'complete' for every
\* button set holding 'finish', 'close' or 'done', whatever else is present.
C6_InstallerCompleteFirst ==
    (c_step # NoStep /\ AnyIn({"finish", "close", "done"}, c_sig.buttons))
        => c_step.inst = "complete"

\* C7: The uninstaller's detect_current_step returns 'complete' for every
\* signature whose buttons hold 'finish', 'close', 'done' or 'exit', for V1 and
\* V2, whatever remove, confirmation or navigation buttons are also present.
C7_UninstallerCompleteFirst ==
    (c_step # NoStep /\ AnyIn({"finish", "close", "done", "exit"}, c_sig.buttons))
        => c_step.un = "complete"

C7_Witness ==
    /\ c_step.un = "complete"
    /\ {"finish", "remove", "ok", "next >"} \subseteq c_sig.buttons
    /\ c_sig.version = "1.x.x"

\* C8: A signature of exactly a Next-class button, a Back-class button and
\* Cancel, without radio buttons and without edit fields, is classified
\* 'welcome' by the installer and by the uninstaller under V1 and V2.
ExactNavTriple(buttons) ==
    \E n \in {"next", "next >"}, b \in {"back", "< back"} :
        buttons = {n, b, "cancel"}

C8_NavTripleIsWelcome ==
    (/\ c_step # NoStep
     /\ ExactNavTriple(c_sig.buttons)
     /\ c_sig.radios = {}
     /\ c_sig.edits = 0)
        => c_step.inst = "welcome" /\ c_step.un = "welcome"

C8_Witness ==
    /\ c_sig.buttons = {"next >", "< back", "cancel"}
    /\ c_sig.radios = {}
    /\ c_sig.edits = 0
    /\ c_sig.version = "2.x.x"
    /\ c_step = [inst |-> "welcome", un |-> "welcome"]

C11_Terminates ==
    /\ [](current_cycle <= max_cycles)
    /\ [][(pc = "loop" /\ current_cycle >= max_cycles /\ pc' # pc)
            => result' = "failure"]_vars
    /\ <>(result # "running")

C11_Witness ==
    /\ result = "failure"
    /\ current_cycle = max_cycles
    /\ current_step_index < Len(expected_sequence)
    /\ detected = "welcome"
    /\ i_screen = ScrLicense

\* C13: A cycle of _run_optimized_installation_steps that detects 'complete'
\* ends the loop in that cycle with success, invokes no step handler and
\* leaves current_step_index as it is, whatever step is expected.
C13_StopsAtComplete ==
    [][(/\ pc = "loop"
        /\ current_cycle' = current_cycle + 1
        /\ Inst_detect(i_screen) = "complete")
          => /\ result' = "success"
             /\ pc' = "done"
             /\ current_step_index' = current_step_index]_vars

C13_Witness ==
    /\ result = "success"
    /\ detected = "complete"
    /\ ExpectedStep(current_step_index) = "license"

RunTimeouts == {"timeout_concurrent", "timeout_steps", "timeout_wait",
                "timeout_welcome", "timeout_window", "timeout_command"}
RunLaunches == {"launch_installer", "find_and_launch_uninstaller"}
RunHandlers == {"handle_concurrent_installers", "_run_optimized_installation_steps",
                "handle_welcome_screen", "handle_verification_screen",
                "handle_remove_screen", "wait_for_completion"}
Called(names) == \E i \in 1..Len(r_log) : r_log[i] \in names
CalledBefore(first, later) ==
    \A i \in 1..Len(r_log) :
        r_log[i] \in later => \E j \in 1..(i - 1) : r_log[j] = first

\* C12: A run in which a blocking phase exhausted its own ceiling returns
\* failure: no phase timeout ends in a success result.
C12_TimeoutIsFailure ==
    (r_events \cap RunTimeouts # {} /\ r_result # "running")
        => r_result = "failure"

\* C15: In the EDR installer's run_installation the prerequisite checks come
\* first: an existing installation is looked for and removed only after they
\* passed, the installer is launched only after both, and no uninstall of an
\* existing product is started with the installer file missing or without
\* administrator privilege.
C15_PrereqFirst ==
    r_script = "edr_install" =>
        /\ CalledBefore("validate_prerequisites",
                        {"check_existing", "uninstall_existing_edr", "launch_installer"})
        /\ CalledBefore("check_existing", {"launch_installer"})
        /\ (~(r_env.file_exists /\ r_env.is_admin)
                => ~Called({"uninstall_existing_edr"}))

\* C16: An install run (Nmap or EDR) whose verify_installation returned false
\* after the wizard was driven returns failure.
C16_VerifyFailureFails ==
    (r_script \in {"nmap", "edr_install"} /\ "verify_failed" \in r_events)
        => r_result = "failure"

BrokenPrecondition ==
    \/ /\ r_script \in {"nmap", "edr_install"}
       /\ ~(r_env.file_exists /\ r_env.is_admin)
    \/ /\ r_script = "edr_install"
       /\ r_env.existing /\ r_env.cred = "none"
    \/ /\ r_script = "edr_uninstall"
       /\ \/ ~IsV1(r_env.version) /\ r_env.cred = "none"
          \/ r_env.cred = "keyfile" /\ ~r_env.key_file_exists

PreconditionChecked ==
    \/ Called({"validate_prerequisites"})
    \/ r_script = "edr_install" /\ r_env.existing /\ r_env.cred = "none"
          /\ Called({"check_existing"})

CycleStarts == pc = "loop" /\ current_cycle' = current_cycle + 1

\* C19: In every cycle whose detected step is a step of expected_sequence
\* strictly earlier than the expected step (welcome, but also license while
\* activation or installation is expected), current_step_index is reset to 0.
C19_AnyRegressionResets ==
    [][(/\ CycleStarts
        /\ InSequence(Inst_detect(i_screen))
        /\ SeqIndex(Inst_detect(i_screen)) < current_step_index)
          => current_step_index' = 0]_vars

\* C20: A cycle whose detected step is strictly later in expected_sequence
\* than the expected step sets current_step_index to the position of the
\* detected step and invokes that step's handler.
C20_SkipDispatches ==
    [][(/\ CycleStarts
        /\ InSequence(Inst_detect(i_screen))
        /\ SeqIndex(Inst_detect(i_screen)) > current_step_index)
          => /\ current_step_index' = SeqIndex(Inst_detect(i_screen))
             /\ pc' = HandlerEntry(Inst_detect(i_screen))]_vars

\* C20 as the code has it: such a cycle sets current_step_index to the
\* position of the detected step and invokes no handler; a handler is invoked
\* only in a cycle that detects the expected step, which then is that step's
\* handler, and a handler that returns to the loop leaves the index one
\* higher (or at 0 after a reload to welcome).
C20_SkipThenDispatch ==
    /\ [][(/\ CycleStarts
           /\ InSequence(Inst_detect(i_screen))
           /\ SeqIndex(Inst_detect(i_screen)) > current_step_index)
             => /\ current_step_index' = SeqIndex(Inst_detect(i_screen))
                /\ pc' = "loop"]_vars
    /\ [][(CycleStarts /\ ~IsTerminal(Inst_detect(i_screen)))
             => (pc' = HandlerEntry(Inst_detect(i_screen))
                    <=> Inst_detect(i_screen) = ExpectedStep(current_step_index))]_vars
    /\ [][(pc \notin {"loop", "done", "idle"} /\ pc' = "loop")
             => current_step_index' \in {current_step_index + 1, 0}]_vars

C20_Witness ==
    /\ pc = "act_server"
    /\ current_cycle = 2
    /\ current_step_index = 2

\* The driver is inside a handler call (or in the branch that called it).
InHandler == pc \notin {"loop", "done", "idle"}

\* C21: In every cycle where the detected step equals the expected step the
\* handler of that step, and of no other step, is invoked; a handler that
\* returns success leaves current_step_index exactly one higher, in the same
\* cycle; a cycle where detected and expected step differ invokes no handler.
C21_MatchingStep ==
    /\ [][(CycleStarts /\ Inst_detect(i_screen) = ExpectedStep(current_step_index))
             => pc' = HandlerEntry(ExpectedStep(current_step_index))]_vars
    /\ [](InHandler => pc \in HandlerPcs(ExpectedStep(current_step_index)))
    /\ [][(CycleStarts /\ Inst_detect(i_screen) # ExpectedStep(current_step_index))
             => pc' \in {"loop", "done"}]_vars
    /\ [][(InHandler /\ pc # "lic_failed" /\ pc' = "loop")
             => /\ current_step_index' = current_step_index + 1
                /\ current_cycle' = current_cycle]_vars

C21_Witness ==
    /\ pc = "loop"
    /\ result = "running"
    /\ current_cycle = 2
    /\ current_step_index = 2
    /\ obs = <<"welcome", "license">>

\* C22: A cycle of _run_optimized_installation_steps whose detected step is
\* 'unknown' leaves current_step_index unchanged, invokes no handler and sends
\* no input to the wizard; it only uses up one of the max_cycles cycles.
C22_UnknownWaits ==
    [][(CycleStarts /\ Inst_detect(i_screen) = "unknown")
          => /\ current_step_index' = current_step_index
             /\ pc' = "loop"
             /\ acts' = <<>>
             /\ i_screen' = i_screen
             /\ result' = "running"
             /\ current_cycle' = current_cycle + 1]_vars

C22_Witness ==
    /\ pc = "loop"
    /\ result = "running"
    /\ detected = "unknown"
    /\ current_cycle = 2
    /\ current_step_index = 1

\* C23: An observation of 'unknown' never makes the install run return
\* failure: a run that has returned failure either used up its max_cycles
\* cycles or the welcome handler's time, or its latest observation (in the
\* loop or in a handler's own re-detection) was not 'unknown'.
C23_UnknownNeverFails ==
    result = "failure"
        => \/ current_cycle >= max_cycles
           \/ w_polls >= MaxWelcomePolls
           \/ detected # "unknown"

\* A handler did not find the control it needs: an edit field or the Next
\* button of the activation page, or the Next button of the license page
\* (the license handler has returned False after trying Next in vain).
MissingControl ==
    \/ pc = "act_server" /\ ~Inst_fill_field_with_win32gui(i_screen, 0)
    \/ pc = "act_tag" /\ ~Inst_fill_field_with_win32gui(i_screen, 1)
    \/ pc = "act_license" /\ ~Inst_fill_field_with_win32gui(i_screen, 2)
    \/ pc = "act_next" /\ ~Inst_click_with_win32gui(i_screen, next_variations)
    \/ /\ pc = "lic_failed"
       /\ acts # <<>>
       /\ acts[Len(acts)] = [ctl |-> "next", ok |-> FALSE]

\* C24: When the activation handler cannot find an edit field or the Next
\* button, or the license handler cannot find Next, the driver does not end
\* the run with failure (it retries the step on a later cycle).
C24_MissingControlRetries ==
    [][(MissingControl /\ pc' # pc) => result' = "running"]_vars

\* C25: Once wait_for_completion's check_for_error_dialog reports a dialog,
\* the uninstall driver tries, in this order, OK on the dialog, Cancel on the
\* wizard and Finish, each once and whether or not the one before succeeded;
\* the run then has returned failure: no step handler runs and no completion
\* poll is made afterwards.
C25_ErrorRecovery ==
    /\ [][(u_pc = "wfc_poll" /\ u_hist'.detected /\ ~u_hist.detected)
             => /\ [i \in 1..Len(u_hist'.recovery) |-> u_hist'.recovery[i].ctl]
                      = <<"ok", "cancel", "finish">>
                /\ u_result' = "failure"
                /\ u_pc' = "done"]_vars
    /\ [][u_hist.detected => UNCHANGED <<u_pc, u_result, u_polls, u_page, u_hist>>]_vars
    /\ [](u_hist.recovery # <<>> => u_hist.detected)

C25_Witness ==
    /\ u_hist.detected
    /\ u_result = "failure"
    /\ u_hist.recovery = << [ctl |-> "ok", ok |-> FALSE],
                            [ctl |-> "cancel", ok |-> TRUE],
                            [ctl |-> "finish", ok |-> FALSE] >>

\* The button set has a Next, a Back and a Cancel button.
HasNavTriple(buttons) ==
    /\ AnyIn({"next", "next >", "continue"}, buttons)
    /\ AnyIn({"< back", "back"}, buttons)
    /\ AnyIn({"cancel"}, buttons)

HasInstallOrCompletion(buttons) ==
    AnyIn({"install", "installing", "finish", "close", "done"}, buttons)

HasLicenseAcceptance(buttons) == AnyIn({ACCEPT, DECLINE}, buttons)

\* C26: On a button set with the navigation triple and no install, completion
\* or license-acceptance button the installer's detect_current_step returns
\* 'activation' exactly when the window has at least 2 edit fields and
\* 'welcome' otherwise; with a license-acceptance button (and no install or
\* completion button) it returns 'license' whatever the number of edit fields.
C26_Disambiguation ==
    c_count >= 1 =>
        /\ (/\ HasNavTriple(c_sig.buttons)
            /\ ~HasInstallOrCompletion(c_sig.buttons)
            /\ ~HasLicenseAcceptance(c_sig.buttons))
              => c_step.inst = IF c_sig.edits >= 2 THEN "activation" ELSE "welcome"
        /\ (/\ HasLicenseAcceptance(c_sig.buttons)
            /\ ~HasInstallOrCompletion(c_sig.buttons))
              => c_step.inst = "license"

C26_Witness ==
    /\ c_count >= 1
    /\ c_sig.buttons = {"next >", "< back", "cancel"}
    /\ c_sig.edits = 2
    /\ c_step.inst = "activation"

\* The controls activated so far by the handler the current cycle called.
Activated == {i \in DOMAIN acts : acts[i].ok}

\* C27: In one cycle of _run_optimized_installation_steps, the handler it
\* dispatches to included, at most one control is activated (a button click,
\* a radio selection or a text fill).
C27_OneActivationPerCycle == Cardinality(Activated) <= 1

\* The attempts a of the license handler are in its order: the acceptance
\* radio button first, the accept button only second and only after the radio
\* button was not clicked, Next only last and only after the acceptance
\* attempts.
LicenseOrder(a) ==
    /\ \A i \in DOMAIN a : a[i].ctl \in {"radio", "accept", "next"}
    /\ \A i \in DOMAIN a : a[i].ctl = "radio" <=> i = 1
    /\ \A i \in DOMAIN a : a[i].ctl = "accept" => (i = 2 /\ ~a[1].ok)
    /\ \A i \in DOMAIN a : a[i].ctl = "next" =>
          /\ i = Len(a)
          /\ \/ i = 2 /\ a[1].ok
             \/ i = 3 /\ a[2].ctl = "accept"

\* C28: Whenever handle_license_agreement acts on the screen it tries the
\* acceptance radio button first, the generic accept button only if no radio
\* button was clicked, and then Next exactly once, whatever the outcome of
\* the acceptance attempts; Next is never tried before them.
C28_LicenseOrder ==
    /\ [](pc \in HandlerPcs("license") => LicenseOrder(acts))
    /\ [][(/\ pc \in HandlerPcs("license") \ {"lic_failed"}
           /\ acts # <<>>
           /\ pc' \in {"loop", "lic_failed"})
             => acts[Len(acts)].ctl = "next"]_vars
    /\ [][(pc = "lic_next" /\ pc' # pc)
             => /\ Len(acts') = Len(acts) + 1
                /\ acts'[Len(acts')].ctl = "next"]_vars

C28_Witness ==
    /\ pc = "lic_verify"
    /\ acts = << [ctl |-> "radio", ok |-> FALSE],
                 [ctl |-> "accept", ok |-> FALSE],
                 [ctl |-> "next", ok |-> TRUE] >>

\* The fills handle_activation_information has to make, in its order, and
\* the position of the handler before each: edit field k-1 is filled at
\* FillPcs[k].
RequiredFills(needs_key) ==
    IF needs_key THEN <<"server", "tag", "license">> ELSE <<"server", "tag">>

FillPcs == <<"act_server", "act_tag", "act_license">>

\* C29: handle_activation_information fills edit field 0 (server address),
\* then field 1 (tag), then field 2 (license key) only when the version
\* requires a license key, and tries Next only after every required fill
\* succeeded; when a fill fails no later field is filled, Next is not clicked
\* and the handler fails.
C29_ActivationOrder ==
    /\ [](pc \in HandlerPcs("activation") =>
            /\ Len(acts) <= Len(RequiredFills(requires_license_key))
            /\ acts = [i \in 1..Len(acts) |->
                          [ctl |-> RequiredFills(requires_license_key)[i], ok |-> TRUE]]
            /\ \A k \in DOMAIN FillPcs : pc = FillPcs[k] => Len(acts) = k - 1
            /\ pc = "act_next" => Len(acts) = Len(RequiredFills(requires_license_key)))
    /\ [][\A k \in DOMAIN FillPcs : (pc = FillPcs[k] /\ pc' # pc) =>
            IF Inst_fill_field_with_win32gui(i_screen, k - 1)
            THEN /\ acts' = Append(acts, [ctl |-> RequiredFills(TRUE)[k], ok |-> TRUE])
                 /\ result' = "running"
                 /\ pc' \in HandlerPcs("activation")
            ELSE /\ result' = "failure"
                 /\ pc' = "done"
                 /\ i_screen' = i_screen]_vars

C29_Witness ==
    /\ pc = "act_next"
    /\ requires_license_key
    /\ acts = << [ctl |-> "server", ok |-> TRUE],
                 [ctl |-> "tag", ok |-> TRUE],
                 [ctl |-> "license", ok |-> TRUE] >>

\* The controls of an Npcap window, by the step they belong to.
NpcapAgree(controls) == \E c \in controls : InStr("i agree", c)
NpcapInstall(controls) ==
    \E c \in controls : InStr("install", c) /\ ~InStr("uninstall", c)
NpcapFinish(controls) ==
    \E c \in controls : InStr("finish", c) \/ InStr("close", c) \/ InStr("done", c)
NpcapNext(controls) == \E c \in controls : InStr("next", c)

\* C30: A call of _handle_npcap_window clicks at most one control, chosen by
\* the priority 'I Agree' over install (a button with 'install' but not
\* 'uninstall') over finish/close/done, with Next as the last fallback: a
\* control of lower priority is never clicked while one of higher priority is
\* in the window.
C30_NpcapPriority ==
    [][(n_ticks' = n_ticks + 1 /\ tick'.handler = "npcap") =>
          LET controls == npcap_win.buttons IN
          /\ tick'.clicked \in {"i agree", "install", "finish", "next", "none"}
          /\ tick'.clicked = "i agree" <=> NpcapAgree(controls)
          /\ tick'.clicked = "install" <=>
                (NpcapInstall(controls) /\ ~NpcapAgree(controls))
          /\ tick'.clicked = "finish" <=>
                /\ NpcapFinish(controls)
                /\ ~NpcapAgree(controls) /\ ~NpcapInstall(controls)
          /\ tick'.clicked = "next" <=>
                /\ NpcapNext(controls)
                /\ ~NpcapAgree(controls) /\ ~NpcapInstall(controls)
                /\ ~NpcapFinish(controls)]_vars

C30_Witness ==
    /\ tick.handler = "npcap"
    /\ tick.clicked = "finish"
    /\ npcap_win.buttons = {"uninstall", "close", "next >"}

(***************************************************************************)
(* C32: the install flow never reports the 'maximum cycles' failure once   *)
(* all four steps of expected_sequence were handled: whenever              *)
(* current_step_index has reached the length of the sequence the driver's  *)
(* return value is success, also when the last step was handled in cycle   *)
(* max_cycles.                                                             *)
(***************************************************************************)
C32_NoFalseTimeout ==
    current_step_index = Len(expected_sequence) => result # "failure"

(***************************************************************************)
(* C39: when handle_license_agreement has returned False the run goes on   *)
(* only if the step detected right afterwards is 'welcome': then the index *)
(* is set back to 0 and the loop continues, the cycle already counted      *)
(* staying counted; with any other detected step the run fails at once.    *)
(***************************************************************************)
C39_LicenseFailurePath ==
    [][(pc = "lic_failed" /\ pc' # "lic_failed") =>
        IF Inst_detect(i_screen) = "welcome"
        THEN /\ current_step_index' = 0
             /\ pc' = "loop"
             /\ result' = "running"
             /\ current_cycle' = current_cycle
        ELSE /\ result' = "failure"
             /\ pc' = "done"]_vars

\* The second cycle dispatched the license handler, the handler failed with
\* the welcome page showing, and the loop goes on from index 0.
C39_Witness ==
    /\ pc = "loop" /\ result = "running"
    /\ current_step_index = 0 /\ current_cycle = 2
    /\ obs = <<"welcome", "license">>
    /\ detected = "welcome"

(***************************************************************************)
(* C40: the driver's index moves past 'installation' only after an install *)
(* action was sent: handle_installation clicked Install or sent Alt+I.     *)
(* When Install is not found and the keyboard fallback is unavailable the  *)
(* step is not counted as handled.                                         *)
(***************************************************************************)
C40_InstallActionSent ==
    [][(pc = "inst_return" /\ current_step_index' = current_step_index + 1)
        => \E i \in DOMAIN acts : acts[i].ok]_vars

\* A step of a handler that sends input to the wizard: a click that found
\* its control.
SendsInput == Len(acts') > Len(acts) /\ acts'[Len(acts')].ok

(***************************************************************************)
(* C36: the welcome handler sends its Next click only when its most recent *)
(* detection returned 'welcome', and the license handler sends its         *)
(* acceptance and Next clicks only when its most recent detection returned *)
(* 'license'; with any other detected step they send no input.             *)
(***************************************************************************)
C36_OwnScreenOnly ==
    [][/\ (SendsInput /\ pc \in HandlerPcs("welcome")) => detected = "welcome"
       /\ (SendsInput /\ pc \in HandlerPcs("license")) => detected = "license"]_vars

(***************************************************************************)
(* C35: on a screen that offers both the accept and the decline radio      *)
(* button, the license handler never activates the decline control: for    *)
(* every order in which the controls are enumerated, the radio button its  *)
(* selection loop clicks is not the decline one.                           *)
(***************************************************************************)
C35_NeverDecline ==
    (pc = "lic_radio" /\ {ACCEPT, DECLINE} \subseteq i_screen.radios)
        => DECLINE \notin Inst_license_radio_targets(i_screen)

(***************************************************************************)
(* C33: the completion latches never starve a visible window.  In every    *)
(* pass of handle_concurrent_installers that enumerates an Nmap setup      *)
(* window and no Npcap window, _handle_nmap_window is invoked, also when   *)
(* nmap_complete was set in an earlier pass; and there is no pass in which *)
(* some installer window is enumerated and neither handler is invoked.     *)
(***************************************************************************)
C33_NoStarvedWindow ==
    /\ (tick.seen_nmap /\ ~tick.seen_npcap) => tick.handler = "nmap"
    /\ (tick.seen_nmap \/ tick.seen_npcap) => tick.handler # "none"

(***************************************************************************)
(* C34: handle_concurrent_installers leaves its loop through the 'no       *)
(* installer windows found' exit only after an installer window was        *)
(* enumerated in an earlier pass; a first pass that finds no window yet    *)
(* does not end the handling.                                              *)
(***************************************************************************)
C34_NoPrematureCompletion ==
    ~(n_state = "returned" /\ n_ticks = 1)

(***************************************************************************)
(* C37: the step the uninstaller's detect_current_step returns is the      *)
(* classification of a page the wizard actually showed at some instant of  *)
(* the call, also when the wizard changes its page between the call's      *)
(* enumerations of buttons, of radio buttons and of edit controls.         *)
(***************************************************************************)
C37_ConsistentSnapshot ==
    u_pc = "returned" => \E i \in DOMAIN u_trace : u_trace[i] = c_step.un

(***************************************************************************)
(* C38: when the welcome phase of the V2 uninstall finds the wizard        *)
(* already at 'remove' or 'complete', run_uninstallation does not fail     *)
(* merely because the verification controls are absent: with the wizard on *)
(* such a page and the verification page never shown, no step of the       *)
(* verification handler makes the run fail.                                *)
(***************************************************************************)
C38_SkippedVerification ==
    [][(/\ u_pc \in {"ver_radio", "ver_fill", "ver_next"}
        /\ Un_detect(UScreen) \in {"remove", "complete"}
        /\ \A i \in DOMAIN u_trace : u_trace[i] # "verification")
       => u_result' # "failure"]_vars

\* No flag occurs twice in flags.
NoFlagTwice(flags) ==
    \A i, j \in DOMAIN flags : flags[i] = flags[j] => i = j

(***************************************************************************)
(* C31: _add_silent_flags_v1 appends a flag only when the command does not *)
(* hold it already, so that the command it returns never contains a flag   *)
(* twice (given a command that does not), and applying it to its own       *)
(* result changes nothing.                                                 *)
(***************************************************************************)
C31_SilentFlagsOnce ==
    /\ (flag_calls = 1 /\ NoFlagTwice(uninstall_string.flags))
           => NoFlagTwice(silent_command.flags)
    /\ flag_calls = 2 => silent_command = uninstall_string

====
